---- MODULE Spec2Model ----
(***************************************************************************)
(* Decay-channel configuration and physical-parent resolution of the HNL   *)
(* production drivers.                                                     *)
(*                                                                         *)
(* Masses are exact fixed-point numbers in units of 10^-6 GeV (the finest  *)
(* resolution any mass literal of the sources needs: M_ELECTRON =          *)
(* 0.000511).  Channel weights are in hundredths (1.0 -> 100).             *)
(* Species ids are the signed PDG integers the sources use.                *)
(***************************************************************************)
EXTENDS Integers, Sequences, FiniteSets, TLC

VARIABLES driver,          \* which driver source is running
          pc,              \* position of main()
          mHNL,            \* argv[1], candidate mass
          flavor,          \* argv[2]
          productionMode,  \* argv[4]
          log,             \* the readString commands issued so far, in order
          table,           \* the engine's particle-data table
          exitCode,        \* return value of main(), -1 while running
          event,           \* the engine's current event record
          iScan,           \* loop index i of the candidate scan
          rows,            \* CSV rows written so far
          parentPdg,       \* loop-body local: resolved parent of the last candidate
          tauParentId,     \* loop-body local: resolved grandparent of the last candidate
          qcdMode,         \* argv[5]
          regime,          \* production regime, "" until determined
          cardName,        \* card file selected for the regime, "" until selected
          settings,        \* where the engine's beam/process settings came from
          candidate,       \* the candidate's particle-data entry
          nEvents,         \* argv[3]
          iEvent,          \* event-loop index
          nEventsProcessed,
          nHNLfound,
          nBcFiltered,
          warnings,        \* invalid-mass warnings logged
          tableOnce,       \* decay tables as they were before a repeated configuration
          files,           \* temporary card files that exist on disk
          scoped,          \* live ScopedFileRemover objects, in construction order
          removed,         \* per temporary card file, how often std::remove was called on it
          oobRead,         \* an event record was read outside the event
          writtenIDs,      \* loop-body local of the legacy drivers
          iMass,           \* index of the mass point of the scan driver
          initFailed,      \* some pythia.init() call has returned false
          outFile,         \* state of the CSV output stream
          proc,            \* two concurrent single-mass runs: position, mass, card read
          cardWriter       \* per temporary card file on disk, the run that wrote it last

\* the variables of one run of the multi-mode drivers beyond the tables
cardVars == <<qcdMode, regime, cardName, settings, candidate>>
loopVars == <<nEvents, iEvent, nEventsProcessed, nHNLfound, nBcFiltered, warnings,
              initFailed, outFile>>
\* the variables only the single-mass drivers and the repeated configuration use
auxVars == <<tableOnce, files, scoped, removed, oobRead, writtenIDs, iMass,
             proc, cardWriter>>

vars == <<driver, pc, mHNL, flavor, productionMode, log, table, exitCode,
          event, iScan, rows, parentPdg, tauParentId, cardVars, loopVars, auxVars>>

(***************************************************************************)
(* Physical constants and PDG ids                                          *)
(***************************************************************************)
HNL_ID == 9900012

M_ELECTRON == 511
M_MUON == 105660
M_TAU == 1777000

MESON_MASSES ==
    [id \in {130, 321, 411, 421, 431, 511, 521, 531, 541} |->
        CASE id = 130 -> 498000
          [] id = 321 -> 494000
          [] id = 411 -> 1870000
          [] id = 421 -> 1865000
          [] id = 431 -> 1968000
          [] id = 511 -> 5280000
          [] id = 521 -> 5279000
          [] id = 531 -> 5367000
          [] id = 541 -> 6275000]

\* local mass literals of configureMesonDecays
mPiCharged == 140000
mK0 == 498000
mLb == 5620000
mLc == 2286000
mLambda0 == 1115000
\* local mass literals of configureMesonDecaysToTauNu
mDstar0 == 2007000
mDstarMinus == 2010000
mDsstar == 2112000
\* local mass literals of configureTauDecays
mPi == 140000
mRho == 775000
m3Pi == 3 * mPi

abs(x) == IF x < 0 THEN -x ELSE x

\* x is among the decay products prods
Contains(prods, x) == \E k \in 1..Len(prods) : prods[k] = x

(***************************************************************************)
(* The two multi-mode drivers                                              *)
(***************************************************************************)
DriverPP == "production/pythia_production/main_hnl_production.cc"
DriverProd == "production/main_hnl_production.cc"
DriverSingle == "production/main_hnl_single.cc"
Drivers == {DriverPP, DriverProd}

\* the candidate id of production/main_hnl_single.cc
llp_pdgid == 9900015

(***************************************************************************)
(* getLeptonInfo: flavor string -> (leptonID, leptonMass); 0 = unknown     *)
(***************************************************************************)
getLeptonID(f) ==
    IF f \in {"electron", "e"} THEN 11
    ELSE IF f \in {"muon", "mu"} THEN 13
    ELSE IF f = "tau" THEN 15
    ELSE 0

getLeptonMass(f) ==
    IF f \in {"electron", "e"} THEN M_ELECTRON
    ELSE IF f \in {"muon", "mu"} THEN M_MUON
    ELSE IF f = "tau" THEN M_TAU
    ELSE 0

getFlavorLabel(f) ==
    IF f \in {"electron", "e"} THEN "electron"
    ELSE IF f \in {"muon", "mu"} THEN "muon"
    ELSE IF f = "tau" THEN "tau"
    ELSE ""

(***************************************************************************)
(* Commands sent to the engine through pythia.readString                   *)
(***************************************************************************)
\* variant: the default modes switched on instead of off
onModeOff_on(id) == [op |-> "onMode", id |-> id, on |-> TRUE, w |-> 0, prods |-> <<>>]

mayDecayOn(id) == [op |-> "mayDecay", id |-> id, on |-> TRUE, w |-> 0, prods |-> <<>>]
onModeOff(id) == [op |-> "onMode", id |-> id, on |-> FALSE, w |-> 0, prods |-> <<>>]
\* variant: the channel is added switched off (onMode 0)
addChannel_off(id, w, prods) ==
    [op |-> "addChannel", id |-> id, on |-> FALSE, w |-> w, prods |-> prods]

\* "id:addChannel = 1 w 0 prods": the channel is added switched on
addChannel(id, w, prods) ==
    [op |-> "addChannel", id |-> id, on |-> TRUE, w |-> w, prods |-> prods]

(***************************************************************************)
(* The engine's particle-data table.  The engine is an external           *)
(* collaborator; its table follows the interface the drivers rely on: one  *)
(* entry per signed species id, holding the may-decay flag, whether the    *)
(* default decay modes are still switched on, and the channels appended by *)
(* addChannel, each with its own on flag.  "onMode = off" switches off     *)
(* every channel the entry holds at that moment; addChannel appends an     *)
(* enabled channel.                                                        *)
(***************************************************************************)
TableIds == {130, 321, -321, 411, -411, 421, -421, 431, -431, 511, -511,
             521, -521, 531, -531, 541, -541, 4122, -4122, 5122, -5122,
             15, -15}

\* species the engine does not decay unless told to
LongLived == {130, 321, -321}

EngineDefaults ==
    [id \in TableIds |->
        [mayDecay |-> id \notin LongLived, defaultOn |-> TRUE, chans |-> <<>>]]

SwitchOff(chans) == [k \in 1..Len(chans) |-> [chans[k] EXCEPT !.on = FALSE]]

\* one command applied to the table entry it addresses
readString(e, c) ==
    IF c.op = "mayDecay" THEN [e EXCEPT !.mayDecay = c.on]
    ELSE IF c.op = "onMode"
    THEN [e EXCEPT !.defaultOn = c.on, !.chans = SwitchOff(e.chans)]
    ELSE [e EXCEPT !.chans =
              Append(e.chans, [on |-> c.on, w |-> c.w, prods |-> c.prods])]

RECURSIVE readEntry(_, _)
readEntry(e, cmds) ==
    IF cmds = <<>> THEN e
    ELSE readEntry(readString(e, Head(cmds)), Tail(cmds))

\* a command sequence applied in order; a command touches only the entry of
\* the id it names, so each entry sees its own commands in issue order
readStrings(t, cmds) ==
    [id \in DOMAIN t |->
        readEntry(t[id], SelectSeq(cmds, LAMBDA c : c.id = id))]

(***************************************************************************)
(* isKinematicallyAllowed2Body                                             *)
(***************************************************************************)
\* variant: the threshold itself counted as open
isKinematicallyAllowed2Body_inclusive(mParent, mLepton, m) == m <= mParent - mLepton

isKinematicallyAllowed2Body(mParent, mLepton, m) == m < mParent - mLepton

\* variant: the threshold itself counted as open
isKinematicallyAllowed3Body_inclusive(mParent, mDaughter, mLepton, m) ==
    m + mLepton + mDaughter <= mParent

\* variant: only the parent mass is tested
isKinematicallyAllowed3Body_parentOnly(mParent, mDaughter, mLepton, m) == m < mParent

\* the sum-of-rest-masses closure test written inline for each 3-body emitter
isKinematicallyAllowed3Body(mParent, mDaughter, mLepton, m) ==
    m + mLepton + mDaughter < mParent

(***************************************************************************)
(* configureMesonDecays of pythia_production/main_hnl_production.cc: the   *)
(* readString commands it issues, in source order.                         *)
(***************************************************************************)
configureMesonDecays(leptonID, m, mLepton) ==
    LET hnl == HNL_ID
        lep == leptonID
        lepBar == -leptonID
        \* K+ -> l+ N
        bK == IF isKinematicallyAllowed2Body(MESON_MASSES[321], mLepton, m)
              THEN << mayDecayOn(321), mayDecayOn(-321),
                      onModeOff(321), addChannel(321, 100, <<lepBar, hnl>>),
                      onModeOff(-321), addChannel(-321, 100, <<lep, hnl>>) >>
              ELSE <<>>
        \* D+ -> l+ N
        bD == IF isKinematicallyAllowed2Body(MESON_MASSES[411], mLepton, m)
              THEN << onModeOff(411), addChannel(411, 100, <<lepBar, hnl>>),
                      onModeOff(-411), addChannel(-411, 100, <<lep, hnl>>) >>
              ELSE <<>>
        \* Ds+ -> l+ N
        bDs == IF isKinematicallyAllowed2Body(MESON_MASSES[431], mLepton, m)
               THEN << onModeOff(431), addChannel(431, 100, <<lepBar, hnl>>),
                       onModeOff(-431), addChannel(-431, 100, <<lep, hnl>>) >>
               ELSE <<>>
        \* B+ -> l+ N
        bB == IF isKinematicallyAllowed2Body(MESON_MASSES[521], mLepton, m)
              THEN << onModeOff(521), addChannel(521, 100, <<lepBar, hnl>>),
                      onModeOff(-521), addChannel(-521, 100, <<lep, hnl>>) >>
              ELSE <<>>
        \* Bc+ -> l+ N
        bBc == IF isKinematicallyAllowed2Body(MESON_MASSES[541], mLepton, m)
               THEN << onModeOff(541), addChannel(541, 100, <<lepBar, hnl>>),
                       onModeOff(-541), addChannel(-541, 100, <<lep, hnl>>) >>
               ELSE <<>>
        \* K_L -> pi l N
        tKL == IF isKinematicallyAllowed3Body(MESON_MASSES[130], mPiCharged, mLepton, m)
               THEN << mayDecayOn(130), onModeOff(130),
                       addChannel(130, 50, <<-211, lepBar, hnl>>),
                       addChannel(130, 50, <<211, lep, hnl>>) >>
               ELSE <<>>
        \* D0 -> K- l+ N
        tD0 == IF isKinematicallyAllowed3Body(MESON_MASSES[421], MESON_MASSES[321], mLepton, m)
               THEN << onModeOff(421), addChannel(421, 100, <<-321, lepBar, hnl>>),
                       onModeOff(-421), addChannel(-421, 100, <<321, lep, hnl>>) >>
               ELSE <<>>
        \* D+ -> K0bar l+ N
        tD == IF isKinematicallyAllowed3Body(MESON_MASSES[411], mK0, mLepton, m)
              THEN << addChannel(411, 50, <<-311, lepBar, hnl>>),
                      addChannel(-411, 50, <<311, lep, hnl>>) >>
              ELSE <<>>
        \* B0 -> D- l+ N
        tB0 == IF isKinematicallyAllowed3Body(MESON_MASSES[511], MESON_MASSES[411], mLepton, m)
               THEN << onModeOff(511), addChannel(511, 100, <<-411, lepBar, hnl>>),
                       onModeOff(-511), addChannel(-511, 100, <<411, lep, hnl>>) >>
               ELSE <<>>
        \* B+ -> D0bar l+ N
        tB == IF isKinematicallyAllowed3Body(MESON_MASSES[521], MESON_MASSES[421], mLepton, m)
              THEN << addChannel(521, 50, <<-421, lepBar, hnl>>),
                      addChannel(-521, 50, <<421, lep, hnl>>) >>
              ELSE <<>>
        \* Bs -> Ds- l+ N
        tBs == IF isKinematicallyAllowed3Body(MESON_MASSES[531], MESON_MASSES[431], mLepton, m)
               THEN << onModeOff(531), addChannel(531, 100, <<-431, lepBar, hnl>>),
                       onModeOff(-531), addChannel(-531, 100, <<431, lep, hnl>>) >>
               ELSE <<>>
        \* Lambda_b -> Lambda_c l- N
        tLb == IF isKinematicallyAllowed3Body(mLb, mLc, mLepton, m)
               THEN << onModeOff(5122), addChannel(5122, 100, <<4122, lep, hnl>>),
                       onModeOff(-5122), addChannel(-5122, 100, <<-4122, lepBar, hnl>>) >>
               ELSE <<>>
        \* Lambda_c -> Lambda l+ N
        tLc == IF isKinematicallyAllowed3Body(mLc, mLambda0, mLepton, m)
               THEN << onModeOff(4122), addChannel(4122, 100, <<3122, lep, hnl>>),
                       onModeOff(-4122), addChannel(-4122, 100, <<-3122, lepBar, hnl>>) >>
               ELSE <<>>
    IN  bK \o bD \o bDs \o bB \o bBc
        \o tKL \o tD0 \o tD \o tB0 \o tB \o tBs \o tLb \o tLc

(***************************************************************************)
(* configureMesonDecays of production/main_hnl_production.cc (the earlier  *)
(* driver): no may-decay commands, no K_L and no Lambda_c block.           *)
(***************************************************************************)
configureMesonDecays_production(leptonID, m, mLepton) ==
    LET hnl == HNL_ID
        lep == leptonID
        lepBar == -leptonID
        bK == IF isKinematicallyAllowed2Body(MESON_MASSES[321], mLepton, m)
              THEN << onModeOff(321), addChannel(321, 100, <<lepBar, hnl>>),
                      onModeOff(-321), addChannel(-321, 100, <<lep, hnl>>) >>
              ELSE <<>>
        bD == IF isKinematicallyAllowed2Body(MESON_MASSES[411], mLepton, m)
              THEN << onModeOff(411), addChannel(411, 100, <<lepBar, hnl>>),
                      onModeOff(-411), addChannel(-411, 100, <<lep, hnl>>) >>
              ELSE <<>>
        bDs == IF isKinematicallyAllowed2Body(MESON_MASSES[431], mLepton, m)
               THEN << onModeOff(431), addChannel(431, 100, <<lepBar, hnl>>),
                       onModeOff(-431), addChannel(-431, 100, <<lep, hnl>>) >>
               ELSE <<>>
        bB == IF isKinematicallyAllowed2Body(MESON_MASSES[521], mLepton, m)
              THEN << onModeOff(521), addChannel(521, 100, <<lepBar, hnl>>),
                      onModeOff(-521), addChannel(-521, 100, <<lep, hnl>>) >>
              ELSE <<>>
        bBc == IF isKinematicallyAllowed2Body(MESON_MASSES[541], mLepton, m)
               THEN << onModeOff(541), addChannel(541, 100, <<lepBar, hnl>>),
                       onModeOff(-541), addChannel(-541, 100, <<lep, hnl>>) >>
               ELSE <<>>
        tD0 == IF isKinematicallyAllowed3Body(MESON_MASSES[421], MESON_MASSES[321], mLepton, m)
               THEN << onModeOff(421), addChannel(421, 100, <<-321, lepBar, hnl>>),
                       onModeOff(-421), addChannel(-421, 100, <<321, lep, hnl>>) >>
               ELSE <<>>
        tD == IF isKinematicallyAllowed3Body(MESON_MASSES[411], mK0, mLepton, m)
              THEN << addChannel(411, 50, <<-311, lepBar, hnl>>),
                      addChannel(-411, 50, <<311, lep, hnl>>) >>
              ELSE <<>>
        tB0 == IF isKinematicallyAllowed3Body(MESON_MASSES[511], MESON_MASSES[411], mLepton, m)
               THEN << onModeOff(511), addChannel(511, 100, <<-411, lepBar, hnl>>),
                       onModeOff(-511), addChannel(-511, 100, <<411, lep, hnl>>) >>
               ELSE <<>>
        tB == IF isKinematicallyAllowed3Body(MESON_MASSES[521], MESON_MASSES[421], mLepton, m)
              THEN << addChannel(521, 50, <<-421, lepBar, hnl>>),
                      addChannel(-521, 50, <<421, lep, hnl>>) >>
              ELSE <<>>
        tBs == IF isKinematicallyAllowed3Body(MESON_MASSES[531], MESON_MASSES[431], mLepton, m)
               THEN << onModeOff(531), addChannel(531, 100, <<-431, lepBar, hnl>>),
                       onModeOff(-531), addChannel(-531, 100, <<431, lep, hnl>>) >>
               ELSE <<>>
        tLb == IF isKinematicallyAllowed3Body(mLb, mLc, mLepton, m)
               THEN << onModeOff(5122), addChannel(5122, 100, <<4122, lep, hnl>>),
                       onModeOff(-5122), addChannel(-5122, 100, <<-4122, lepBar, hnl>>) >>
               ELSE <<>>
    IN  bK \o bD \o bDs \o bB \o bBc
        \o tD0 \o tD \o tB0 \o tB \o tBs \o tLb

(***************************************************************************)
(* configureMesonDecaysToTauNu (pythia_production driver only)             *)
(***************************************************************************)
configureMesonDecaysToTauNu(m) ==
    LET mDs == MESON_MASSES[431]
        bDs == IF M_TAU < mDs
               THEN << onModeOff(431), addChannel(431, 100, <<-15, 16>>),
                       onModeOff(-431), addChannel(-431, 100, <<15, -16>>) >>
               ELSE <<>>
        mBplus == MESON_MASSES[521]
        mD0 == MESON_MASSES[421]
        bplus_d_ok == M_TAU + mD0 < mBplus
        bplus_dstar_ok == M_TAU + mDstar0 < mBplus
        bBp == << onModeOff(521), onModeOff(-521) >> \o
               (IF bplus_d_ok /\ bplus_dstar_ok
                THEN << addChannel(521, 40, <<-421, -15, 16>>),
                        addChannel(521, 60, <<-423, -15, 16>>),
                        addChannel(-521, 40, <<421, 15, -16>>),
                        addChannel(-521, 60, <<423, 15, -16>>) >>
                ELSE IF bplus_d_ok
                THEN << addChannel(521, 100, <<-421, -15, 16>>),
                        addChannel(-521, 100, <<421, 15, -16>>) >>
                ELSE <<>>)
        mB0 == MESON_MASSES[511]
        mDminus == MESON_MASSES[411]
        b0_d_ok == M_TAU + mDminus < mB0
        b0_dstar_ok == M_TAU + mDstarMinus < mB0
        bB0 == << onModeOff(511), onModeOff(-511) >> \o
               (IF b0_d_ok /\ b0_dstar_ok
                THEN << addChannel(511, 40, <<-411, -15, 16>>),
                        addChannel(511, 60, <<-413, -15, 16>>),
                        addChannel(-511, 40, <<411, 15, -16>>),
                        addChannel(-511, 60, <<413, 15, -16>>) >>
                ELSE IF b0_d_ok
                THEN << addChannel(511, 100, <<-411, -15, 16>>),
                        addChannel(-511, 100, <<411, 15, -16>>) >>
                ELSE <<>>)
        mBs == MESON_MASSES[531]
        mDsPlus == MESON_MASSES[431]
        bs_ds_ok == M_TAU + mDsPlus < mBs
        bs_dsstar_ok == M_TAU + mDsstar < mBs
        bBs == << onModeOff(531), onModeOff(-531) >> \o
               (IF bs_ds_ok /\ bs_dsstar_ok
                THEN << addChannel(531, 40, <<-431, -15, 16>>),
                        addChannel(531, 60, <<-433, -15, 16>>),
                        addChannel(-531, 40, <<431, 15, -16>>),
                        addChannel(-531, 60, <<433, 15, -16>>) >>
                ELSE IF bs_ds_ok
                THEN << addChannel(531, 100, <<-431, -15, 16>>),
                        addChannel(-531, 100, <<431, 15, -16>>) >>
                ELSE <<>>)
        mBc == MESON_MASSES[541]
        bBc == IF M_TAU < mBc
               THEN << onModeOff(541), addChannel(541, 100, <<-15, 16>>),
                       onModeOff(-541), addChannel(-541, 100, <<15, -16>>) >>
               ELSE <<>>
    IN  bDs \o bBp \o bB0 \o bBs \o bBc

(***************************************************************************)
(* configureTauDecays of the pythia_production driver                      *)
(***************************************************************************)
\* variant: the leptonic branch does not test the muon threshold
tauWeights_muUnguarded(m) ==
    LET mTau == M_TAU
        mMu == M_MUON
        mE == M_ELECTRON
        allow_pi == m + mPi < mTau
        allow_rho == m + mRho < mTau
        allow_tripi == m + m3Pi < mTau
        allow_mu == m + mMu < mTau
        allow_e == m + mE < mTau
        zero == [pi |-> 0, rho |-> 0, tripi |-> 0, mu |-> 0, e |-> 0]
    IN  IF allow_pi
        THEN IF allow_rho /\ allow_tripi
             THEN [pi |-> 20, rho |-> 45, tripi |-> 25, mu |-> 5, e |-> 5]
             ELSE IF allow_rho /\ ~allow_tripi
             THEN [pi |-> 35, rho |-> 50, tripi |-> 0, mu |-> 8, e |-> 7]
             ELSE IF ~allow_rho /\ allow_tripi
             THEN [pi |-> 55, rho |-> 0, tripi |-> 25, mu |-> 10, e |-> 10]
             ELSE [pi |-> 70, rho |-> 0, tripi |-> 0, mu |-> 15, e |-> 15]
        ELSE IF allow_mu \/ allow_e
        THEN [zero EXCEPT !.mu = 50, !.e = 50]
        ELSE zero

\* variant: the pi weight of the 'rho closed, 3-pion open' branch is 0.60
tauWeights_piHeavy(m) ==
    LET mTau == M_TAU
        mMu == M_MUON
        mE == M_ELECTRON
        allow_pi == m + mPi < mTau
        allow_rho == m + mRho < mTau
        allow_tripi == m + m3Pi < mTau
        allow_mu == m + mMu < mTau
        allow_e == m + mE < mTau
        zero == [pi |-> 0, rho |-> 0, tripi |-> 0, mu |-> 0, e |-> 0]
    IN  IF allow_pi
        THEN IF allow_rho /\ allow_tripi
             THEN [pi |-> 20, rho |-> 45, tripi |-> 25, mu |-> 5, e |-> 5]
             ELSE IF allow_rho /\ ~allow_tripi
             THEN [pi |-> 35, rho |-> 50, tripi |-> 0, mu |-> 8, e |-> 7]
             ELSE IF ~allow_rho /\ allow_tripi
             THEN [pi |-> 60, rho |-> 0, tripi |-> 25, mu |-> 10, e |-> 10]
             ELSE [pi |-> 70, rho |-> 0, tripi |-> 0, mu |-> 15, e |-> 15]
        ELSE IF allow_mu
        THEN [zero EXCEPT !.mu = 50, !.e = 50]
        ELSE IF allow_e
        THEN [zero EXCEPT !.e = 100]
        ELSE zero

tauWeights(m) ==
    LET mTau == M_TAU
        mMu == M_MUON
        mE == M_ELECTRON
        allow_pi == m + mPi < mTau
        allow_rho == m + mRho < mTau
        allow_tripi == m + m3Pi < mTau
        allow_mu == m + mMu < mTau
        allow_e == m + mE < mTau
        zero == [pi |-> 0, rho |-> 0, tripi |-> 0, mu |-> 0, e |-> 0]
    IN  IF allow_pi
        THEN IF allow_rho /\ allow_tripi
             THEN [pi |-> 20, rho |-> 45, tripi |-> 25, mu |-> 5, e |-> 5]
             ELSE IF allow_rho /\ ~allow_tripi
             THEN [pi |-> 35, rho |-> 50, tripi |-> 0, mu |-> 8, e |-> 7]
             ELSE IF ~allow_rho /\ allow_tripi
             THEN [pi |-> 55, rho |-> 0, tripi |-> 25, mu |-> 10, e |-> 10]
             ELSE [pi |-> 70, rho |-> 0, tripi |-> 0, mu |-> 15, e |-> 15]
        ELSE IF allow_mu
        THEN [zero EXCEPT !.mu = 50, !.e = 50]
        ELSE IF allow_e
        THEN [zero EXCEPT !.e = 100]
        ELSE zero

\* variant: the tau's existing channels are not switched off first
configureTauDecays_noReset(m) ==
    LET hnl == HNL_ID
        w == tauWeights(m)
    IN  (IF w.rho > 0
            THEN << addChannel(15, w.rho, <<-213, hnl>>),
                    addChannel(-15, w.rho, <<213, hnl>>) >>
            ELSE <<>>)
        \o (IF w.tripi > 0
            THEN << addChannel(15, w.tripi, <<-211, -211, 211, hnl>>),
                    addChannel(-15, w.tripi, <<211, 211, -211, hnl>>) >>
            ELSE <<>>)
        \o (IF w.pi > 0
            THEN << addChannel(15, w.pi, <<-211, hnl>>),
                    addChannel(-15, w.pi, <<211, hnl>>) >>
            ELSE <<>>)
        \o (IF w.mu > 0
            THEN << addChannel(15, w.mu, <<13, -14, hnl>>),
                    addChannel(-15, w.mu, <<-13, 14, hnl>>) >>
            ELSE <<>>)
        \o (IF w.e > 0
            THEN << addChannel(15, w.e, <<11, -12, hnl>>),
                    addChannel(-15, w.e, <<-11, 12, hnl>>) >>
            ELSE <<>>)

configureTauDecays(m) ==
    LET hnl == HNL_ID
        w == tauWeights(m)
    IN  << onModeOff(15), onModeOff(-15) >>
        \o (IF w.rho > 0
            THEN << addChannel(15, w.rho, <<-213, hnl>>),
                    addChannel(-15, w.rho, <<213, hnl>>) >>
            ELSE <<>>)
        \o (IF w.tripi > 0
            THEN << addChannel(15, w.tripi, <<-211, -211, 211, hnl>>),
                    addChannel(-15, w.tripi, <<211, 211, -211, hnl>>) >>
            ELSE <<>>)
        \o (IF w.pi > 0
            THEN << addChannel(15, w.pi, <<-211, hnl>>),
                    addChannel(-15, w.pi, <<211, hnl>>) >>
            ELSE <<>>)
        \o (IF w.mu > 0
            THEN << addChannel(15, w.mu, <<13, -14, hnl>>),
                    addChannel(-15, w.mu, <<-13, 14, hnl>>) >>
            ELSE <<>>)
        \o (IF w.e > 0
            THEN << addChannel(15, w.e, <<11, -12, hnl>>),
                    addChannel(-15, w.e, <<-11, 12, hnl>>) >>
            ELSE <<>>)

(***************************************************************************)
(* configureTauDecays of production/main_hnl_production.cc: one            *)
(* representative tau -> pi N channel                                      *)
(***************************************************************************)
configureTauDecays_production(m) ==
    LET hnl == HNL_ID
        mTau == M_TAU
    IN  << onModeOff(15), onModeOff(-15) >>
        \o (IF m + mPi < mTau
            THEN << addChannel(15, 100, <<-211, hnl>>),
                    addChannel(-15, 100, <<211, hnl>>) >>
            ELSE <<>>)

(***************************************************************************)
(* getProductionRegime of the pythia_production driver: mass and flavor    *)
(***************************************************************************)
getProductionRegime(m, flavorLabel) ==
    IF flavorLabel = "tau"
    THEN IF m < 2000000 THEN "charm" ELSE "beauty"
    ELSE IF m < 500000 THEN "kaon"
    ELSE IF m < 2000000 THEN "charm"
    ELSE "beauty"

(***************************************************************************)
(* getProductionRegime of production/main_hnl_production.cc: mass only     *)
(***************************************************************************)
getProductionRegime_production(m) ==
    IF m < 500000 THEN "kaon"
    ELSE IF m < 2000000 THEN "charm"
    ELSE "beauty"

(***************************************************************************)
(* Run requests: the command lines the drivers are started with            *)
(***************************************************************************)
MassSteps == 1

LeptonMasses == {M_ELECTRON, M_MUON, M_TAU}

\* (parent mass, daughter mass) of the 3-body emitters
ThreeBodyMasses ==
    { <<MESON_MASSES[130], mPiCharged>>, <<MESON_MASSES[421], MESON_MASSES[321]>>,
      <<MESON_MASSES[411], mK0>>, <<MESON_MASSES[511], MESON_MASSES[411]>>,
      <<MESON_MASSES[521], MESON_MASSES[421]>>, <<MESON_MASSES[531], MESON_MASSES[431]>>,
      <<mLb, mLc>>, <<mLc, mLambda0>> }

\* the masses at which some channel opens or closes, the two regime
\* boundaries (0.5 GeV and 2.0 GeV), and the two masses the specification's
\* examples use (0.3 GeV and 3.0 GeV)
Thresholds ==
    { MESON_MASSES[p] - mL : p \in {321, 411, 431, 521, 541}, mL \in LeptonMasses }
    \cup { pr[1] - pr[2] - mL : pr \in ThreeBodyMasses, mL \in LeptonMasses }
    \cup { M_TAU - r : r \in {mRho, m3Pi, mPi, M_MUON, M_ELECTRON} }
    \cup { 500000, 2000000 }
    \cup { 300000, 3000000 }

MassGrid == { t + d : t \in Thresholds, d \in (-MassSteps)..MassSteps } \cap (1..10000000)

Flavors == {"electron", "muon", "tau", "positron"}
Modes == {"direct", "fromTau", "viaW"}
QcdModes == {"auto", "hardBc", "hardccbar", "hardbbbar", "softQCD"}

(***************************************************************************)
(* main(): argument validation                                             *)
(***************************************************************************)
mTauMinusE == M_TAU - M_ELECTRON

\* the fromTau kinematic-limit check of the pythia_production driver
fromTauForbidden(mode, m) == mode = "fromTau" /\ m > mTauMinusE

argsRejected ==
    \/ productionMode \notin {"direct", "fromTau"}
    \/ driver = DriverPP /\ qcdMode \notin {"auto", "hardBc", "hardccbar", "hardbbbar"}
    \/ productionMode = "fromTau" /\ flavor # "tau"
    \/ driver = DriverPP /\ fromTauForbidden(productionMode, mHNL)
    \/ getLeptonID(flavor) = 0

ValidateArgs ==
    /\ pc = "start"
    /\ IF argsRejected
       THEN pc' = "exit" /\ exitCode' = 1
       ELSE pc' = "validated" /\ exitCode' = exitCode
    /\ UNCHANGED <<driver, mHNL, flavor, productionMode, log, table,
                   event, iScan, rows, parentPdg, tauParentId,
                   cardVars, loopVars, auxVars>>

(***************************************************************************)
(* main(): regime, card selection and card reading                         *)
(***************************************************************************)
\* the regime the run uses, after the QCD-mode override
runRegime ==
    IF driver = DriverPP
    THEN IF qcdMode = "hardBc" THEN "Bc"
         ELSE IF qcdMode = "hardccbar" THEN "charm"
         ELSE IF qcdMode = "hardbbbar" THEN "beauty"
         ELSE getProductionRegime(mHNL, getFlavorLabel(flavor))
    ELSE getProductionRegime_production(mHNL)

cardFor(r) ==
    IF r = "Bc" /\ driver = DriverPP THEN "hnl_Bc.cmnd"
    ELSE IF r = "kaon" THEN "hnl_Kaon.cmnd"
    ELSE IF r = "charm" THEN "hnl_Dmeson.cmnd"
    ELSE IF r = "beauty" THEN "hnl_Bmeson.cmnd"
    ELSE ""

\* the directories the card is looked for in, in order; "" = in neither
CardDirs == {"cards/", "../cards/", ""}

\* the hard process the settings end with
processFor(r, dir) ==
    IF driver = DriverPP
    THEN IF qcdMode \in {"hardccbar", "hardbbbar"} THEN qcdMode ELSE "card"
    ELSE IF dir # "" THEN "card"
         ELSE IF r = "kaon" THEN "nonDiffractive"
         ELSE IF r = "charm" THEN "hardccbar"
         ELSE "hardbbbar"

ReadCard ==
    /\ pc = "validated"
    /\ regime' = runRegime
    /\ cardName' = cardFor(runRegime)
    /\ IF cardFor(runRegime) = ""
       THEN pc' = "exit" /\ exitCode' = 1 /\ settings' = settings
       ELSE \E dir \in CardDirs :
               IF dir = "" /\ driver = DriverPP
               THEN pc' = "exit" /\ exitCode' = 1 /\ settings' = settings
               ELSE /\ pc' = "carded" /\ exitCode' = exitCode
                    /\ settings' = [source |-> IF dir = "" THEN "fallback" ELSE "card",
                                    process |-> processFor(runRegime, dir)]
    /\ UNCHANGED <<driver, mHNL, flavor, productionMode, log, table,
                   event, iScan, rows, parentPdg, tauParentId,
                   qcdMode, candidate, loopVars, auxVars>>

(***************************************************************************)
(* main(): define the candidate particle                                   *)
(***************************************************************************)
Undefined == [defined |-> FALSE, m0 |-> 0, stable |-> FALSE, mayDecay |-> FALSE]

DefineHNL ==
    /\ pc = "carded"
    /\ candidate' = [defined |-> TRUE, m0 |-> mHNL, stable |-> TRUE, mayDecay |-> FALSE]
    /\ pc' = "defined"
    /\ UNCHANGED <<driver, mHNL, flavor, productionMode, log, table, exitCode,
                   event, iScan, rows, parentPdg, tauParentId,
                   qcdMode, regime, cardName, settings, loopVars, auxVars>>

(***************************************************************************)
(* main(): configure decay channels based on production mode               *)
(***************************************************************************)
\* variant: the fromTau branch also runs the direct configurator
channelCommands_both ==
    LET flavorLabel == getFlavorLabel(flavor)
        leptonID == getLeptonID(flavor)
        mLepton == getLeptonMass(flavor)
    IN  IF flavorLabel = "tau" /\ productionMode = "fromTau"
        THEN IF driver = DriverPP
             THEN configureMesonDecays(leptonID, mHNL, mLepton)
                  \o configureTauDecays(mHNL)
             ELSE configureTauDecays_production(mHNL)
        ELSE IF driver = DriverPP
             THEN configureMesonDecays(leptonID, mHNL, mLepton)
             ELSE configureMesonDecays_production(leptonID, mHNL, mLepton)

\* the if/else of main() on flavor and production mode
channelCommands ==
    LET flavorLabel == getFlavorLabel(flavor)
        leptonID == getLeptonID(flavor)
        mLepton == getLeptonMass(flavor)
    IN  IF flavorLabel = "tau" /\ productionMode = "fromTau"
        THEN IF driver = DriverPP
             THEN configureMesonDecaysToTauNu(mHNL) \o configureTauDecays(mHNL)
             ELSE configureTauDecays_production(mHNL)
        ELSE IF driver = DriverPP
             THEN configureMesonDecays(leptonID, mHNL, mLepton)
             ELSE configureMesonDecays_production(leptonID, mHNL, mLepton)

\* variant: a configuration that installs nothing ends the run
ConfigureChannels_rejectEmpty ==
    /\ pc = "defined"
    /\ log' = log \o channelCommands
    /\ table' = readStrings(table, channelCommands)
    /\ IF channelCommands = <<>>
       THEN pc' = "exit" /\ exitCode' = 1
       ELSE pc' = "configured" /\ exitCode' = exitCode
    /\ UNCHANGED <<driver, mHNL, flavor, productionMode,
                   event, iScan, rows, parentPdg, tauParentId,
                   cardVars, loopVars, auxVars>>

ConfigureChannels ==
    /\ pc = "defined"
    /\ log' = log \o channelCommands
    /\ table' = readStrings(table, channelCommands)
    /\ pc' = "configured"
    /\ UNCHANGED <<driver, mHNL, flavor, productionMode, exitCode,
                   event, iScan, rows, parentPdg, tauParentId,
                   cardVars, loopVars, auxVars>>

(***************************************************************************)
(* main(): pythia.init(), which the engine may fail                        *)
(***************************************************************************)
InitEngine ==
    /\ pc = "configured"
    /\ \E ok \in BOOLEAN :
          IF ok
          THEN pc' = "initialized" /\ exitCode' = exitCode /\ initFailed' = initFailed
          ELSE pc' = "exit" /\ exitCode' = 1 /\ initFailed' = TRUE
    /\ UNCHANGED <<driver, mHNL, flavor, productionMode, log, table,
                   event, iScan, rows, parentPdg, tauParentId,
                   cardVars, nEvents, iEvent, nEventsProcessed, nHNLfound,
                   nBcFiltered, warnings, outFile, auxVars>>

\* the state of everything a run has not touched yet
Untouched ==
    /\ log = <<>>
    /\ table = EngineDefaults
    /\ exitCode = -1
    /\ iScan = 0
    /\ rows = <<>>
    /\ parentPdg = 0
    /\ tauParentId = 0
    /\ regime = ""
    /\ cardName = ""
    /\ settings = [source |-> "none", process |-> "none"]
    /\ candidate = Undefined
    /\ iEvent = 0
    /\ nEventsProcessed = 0
    /\ nHNLfound = 0
    /\ nBcFiltered = 0
    /\ warnings = 0
    /\ tableOnce = EngineDefaults
    /\ files = {}
    /\ scoped = <<>>
    /\ removed = <<>>
    /\ oobRead = FALSE
    /\ writtenIDs = {}
    /\ iMass = 0
    /\ initFailed = FALSE
    /\ outFile = "none"
    /\ cardWriter = {}

InitConfig ==
    /\ driver \in Drivers
    /\ pc = "start"
    /\ mHNL \in MassGrid
    /\ flavor \in Flavors
    /\ productionMode \in Modes
    /\ qcdMode \in IF driver = DriverPP THEN QcdModes ELSE {"auto"}
    /\ nEvents = 0
    /\ event = <<>>
    /\ proc = <<>>
    /\ Untouched

NextConfig == ValidateArgs \/ ReadCard \/ DefineHNL \/ ConfigureChannels \/ InitEngine

SpecConfig == InitConfig /\ [][NextConfig]_vars

(***************************************************************************)
(* The channel configuration of main() run a second time, with the same    *)
(* inputs, on the decay tables the first run left                          *)
(***************************************************************************)
ConfigureChannelsAgain ==
    /\ pc = "configured"
    /\ tableOnce' = table
    /\ log' = log \o channelCommands
    /\ table' = readStrings(table, channelCommands)
    /\ pc' = "reconfigured"
    /\ UNCHANGED <<driver, mHNL, flavor, productionMode, exitCode,
                   event, iScan, rows, parentPdg, tauParentId,
                   cardVars, loopVars, files, scoped, removed, oobRead,
                   writtenIDs, iMass,
                   proc, cardWriter>>

NextReconfigure ==
    ValidateArgs \/ ReadCard \/ DefineHNL \/ ConfigureChannels \/ ConfigureChannelsAgain

SpecReconfigure == InitConfig /\ [][NextReconfigure]_vars

(***************************************************************************)
(* A double as the event record reports it: a finite number (in units of   *)
(* 10^-6 GeV), NaN, or an infinity.                                        *)
(***************************************************************************)
Num(v) == [k |-> "num", v |-> v]
NaN == [k |-> "nan", v |-> 0]
PosInf == [k |-> "inf", v |-> 0]
NegInf == [k |-> "-inf", v |-> 0]

\* std::isfinite(x)
isfinite(x) == x.k = "num"
\* x <= 0.0, false for NaN
leZero(x) == (x.k = "num" /\ x.v <= 0) \/ x.k = "-inf"

(***************************************************************************)
(* The event record.  C++ index i is element i + 1 of the sequence; record *)
(* 0 is the engine's system record.  Each record carries its species id,   *)
(* its direct-mother link, its earliest-same-species-copy link and its     *)
(* mass.                                                                   *)
(***************************************************************************)
size(ev) == Len(ev)
at(ev, i) == ev[i + 1]
InRange(ev, i) == i >= 0 /\ i < size(ev)

\* a particle is final when no record names it as mother
isFinal(ev, i) == \A j \in 0..(size(ev) - 1) : j = i \/ at(ev, j).mother1 # i

\* variant: the self-parenting guard compares signed ids
findPhysicalParent_signedGuard(ev, iParticle, forbiddenId) ==
    IF iParticle < 0 \/ iParticle >= size(ev) THEN 0
    ELSE LET iTop0 == at(ev, iParticle).iTopCopy
             iTop == IF iTop0 < 0 \/ iTop0 >= size(ev) THEN iParticle ELSE iTop0
             iMother == at(ev, iTop).mother1
         IN  IF iMother <= 0 \/ iMother >= size(ev) THEN 0
             ELSE IF forbiddenId # 0 /\ at(ev, iMother).id = forbiddenId
             THEN 0
             ELSE at(ev, iMother).id

(***************************************************************************)
(* findPhysicalParent of pythia_production/main_hnl_production.cc          *)
(***************************************************************************)
findPhysicalParent(ev, iParticle, forbiddenId) ==
    IF iParticle < 0 \/ iParticle >= size(ev) THEN 0
    ELSE LET iTop0 == at(ev, iParticle).iTopCopy
             iTop == IF iTop0 < 0 \/ iTop0 >= size(ev) THEN iParticle ELSE iTop0
             iMother == at(ev, iTop).mother1
         IN  IF iMother <= 0 \/ iMother >= size(ev) THEN 0
             ELSE IF forbiddenId # 0 /\ abs(at(ev, iMother).id) = abs(forbiddenId)
             THEN 0
             ELSE at(ev, iMother).id

(***************************************************************************)
(* findPhysicalParent of production/main_hnl_production.cc                 *)
(***************************************************************************)
findPhysicalParent_production(ev, iHNL) ==
    IF iHNL < 0 \/ iHNL >= size(ev) THEN 0
    ELSE LET iTop0 == at(ev, iHNL).iTopCopy
             iTop == IF iTop0 < 0 \/ iTop0 >= size(ev) THEN iHNL ELSE iTop0
             iMother == at(ev, iTop).mother1
         IN  IF iMother <= 0 \/ iMother >= size(ev) THEN 0
             ELSE IF abs(at(ev, iMother).id) = HNL_ID THEN 0
             ELSE at(ev, iMother).id

\* variant: the parent's sign is dropped
findPhysicalParentId_unsigned(evt, iLlp, llp) ==
    IF iLlp < 0 \/ iLlp >= size(evt) THEN 0
    ELSE LET iTop == at(evt, iLlp).iTopCopy
         IN  IF iTop < 0 \/ iTop >= size(evt) THEN 0
             ELSE LET iMother == at(evt, iTop).mother1
                  IN  IF iMother <= 0 \/ iMother >= size(evt) THEN 0
                      ELSE LET id == at(evt, iMother).id
                           IN  IF abs(id) = llp THEN 0 ELSE abs(id)

(***************************************************************************)
(* findPhysicalParentId of production/main_hnl_single.cc                   *)
(***************************************************************************)
findPhysicalParentId(evt, iLlp, llp) ==
    IF iLlp < 0 \/ iLlp >= size(evt) THEN 0
    ELSE LET iTop == at(evt, iLlp).iTopCopy
         IN  IF iTop < 0 \/ iTop >= size(evt) THEN 0
             ELSE LET iMother == at(evt, iTop).mother1
                  IN  IF iMother <= 0 \/ iMother >= size(evt) THEN 0
                      ELSE LET id == at(evt, iMother).id
                           IN  IF abs(id) = llp THEN 0 ELSE id

\* variant: the second lookup starts from the candidate, not from the tau
tauGrandfather_fromCandidate(ev, i, parent) ==
    IF abs(parent) = 15
    THEN LET iTop0 == at(ev, i).iTopCopy
             iTop == IF iTop0 < 0 \/ iTop0 >= size(ev) THEN i ELSE iTop0
             iTau == at(ev, iTop).mother1
         IN  IF iTau > 0 /\ iTau < size(ev)
             THEN LET tauParentPdg == findPhysicalParent(ev, i, 0)
                  IN  IF tauParentPdg # 0 THEN abs(tauParentPdg) ELSE 0
             ELSE 0
    ELSE 0

\* variant: tauParentId is declared outside the loop and not reset
tauGrandfather_carriedOver(ev, i, parent) ==
    IF abs(parent) = 15
    THEN LET iTop0 == at(ev, i).iTopCopy
             iTop == IF iTop0 < 0 \/ iTop0 >= size(ev) THEN i ELSE iTop0
             iTau == at(ev, iTop).mother1
         IN  IF iTau > 0 /\ iTau < size(ev)
             THEN LET tauParentPdg == findPhysicalParent(ev, iTau, 0)
                  IN  IF tauParentPdg # 0 THEN abs(tauParentPdg) ELSE tauParentId
             ELSE tauParentId
    ELSE tauParentId

(***************************************************************************)
(* The tau-grandfather extraction in the event loop of the                 *)
(* pythia_production driver                                                *)
(***************************************************************************)
tauGrandfather(ev, i, parent) ==
    IF abs(parent) = 15
    THEN LET iTop0 == at(ev, i).iTopCopy
             iTop == IF iTop0 < 0 \/ iTop0 >= size(ev) THEN i ELSE iTop0
             iTau == at(ev, iTop).mother1
         IN  IF iTau > 0 /\ iTau < size(ev)
             THEN LET tauParentPdg == findPhysicalParent(ev, iTau, 0)
                  IN  IF tauParentPdg # 0 THEN abs(tauParentPdg) ELSE 0
             ELSE 0
    ELSE 0

(***************************************************************************)
(* Events handed over by the engine: a decay chain system -> 1 -> ... -> n *)
(* of MaxParticles particles with arbitrary species, each record's mother  *)
(* being the record before it and its earliest copy the start of the run   *)
(* of equal ids it ends, and the same chain with one link of one record    *)
(* replaced by an arbitrary value, absent (-1) and out of range included.  *)
(***************************************************************************)
MaxParticles == 3

candidateId(d) == IF d \in Drivers THEN HNL_ID ELSE llp_pdgid

EventIds(cand) == {cand, -cand, 15, -15, 541, -541}

\* the mass every record of a chain reports unless stated otherwise
ChainMass == 300000

RECURSIVE TopOfRun(_, _)
TopOfRun(ids, k) ==
    IF k > 1 /\ ids[k - 1] = ids[k] THEN TopOfRun(ids, k - 1) ELSE k

Chain(ids) ==
    << [id |-> 90, mother1 |-> 0, iTopCopy |-> 0, m |-> Num(0)] >> \o
    [k \in 1..Len(ids) |->
        [id |-> ids[k], mother1 |-> k - 1, iTopCopy |-> TopOfRun(ids, k),
         m |-> Num(ChainMass)]]

OneLinkReplaced(ev) ==
    LET n == Len(ev) - 1
    IN  {ev}
        \cup { [ev EXCEPT ![k + 1].mother1 = v] : k \in 1..n, v \in (-1)..(n + 1) }
        \cup { [ev EXCEPT ![k + 1].iTopCopy = v] : k \in 1..n, v \in (-1)..(n + 1) }

Events(cand) ==
    UNION { OneLinkReplaced(Chain(ids)) : ids \in [1..MaxParticles -> EventIds(cand)] }

(***************************************************************************)
(* The candidate scan of one event: the body of the loop over i            *)
(***************************************************************************)
\* pythia_production/main_hnl_production.cc
ScanParticlePP ==
    /\ driver = DriverPP /\ pc = "scan" /\ iScan < size(event)
    /\ LET i == iScan
           p == at(event, i)
           filterBcParent == qcdMode = "hardBc"
       IN  IF abs(p.id) # HNL_ID
           THEN /\ iScan' = iScan + 1
                /\ UNCHANGED <<pc, exitCode, rows, parentPdg, tauParentId,
                               nHNLfound, nBcFiltered, warnings>>
           ELSE LET parent == findPhysicalParent(event, i, HNL_ID)
                    grand == tauGrandfather(event, i, parent)
                    isFromBc == abs(parent) = 541 \/ (abs(parent) = 15 /\ grand = 541)
                    invalid == leZero(p.m) \/ ~isfinite(p.m)
                    mass == IF invalid THEN Num(mHNL) ELSE p.m
                IN  /\ parentPdg' = parent
                    /\ tauParentId' = grand
                    /\ IF filterBcParent /\ ~isFromBc
                       THEN /\ nBcFiltered' = nBcFiltered + 1
                            /\ iScan' = iScan + 1
                            /\ UNCHANGED <<pc, exitCode, rows, nHNLfound, warnings>>
                       ELSE /\ warnings' = IF invalid THEN warnings + 1 ELSE warnings
                            /\ IF leZero(mass)
                               THEN /\ pc' = "exit" /\ exitCode' = 1
                                    /\ UNCHANGED <<iScan, rows, nHNLfound, nBcFiltered>>
                               ELSE /\ rows' = Append(rows,
                                           [hnl_id |-> p.id, parent_pdg |-> parent,
                                            tau_parent_id |-> grand, mass |-> p.m,
                                            divisor |-> mass])
                                    /\ nHNLfound' = nHNLfound + 1
                                    /\ iScan' = iScan + 1
                                    /\ UNCHANGED <<pc, exitCode, nBcFiltered>>
    /\ UNCHANGED <<driver, mHNL, flavor, productionMode, log, table, event,
                   cardVars, nEvents, iEvent, nEventsProcessed, initFailed,
                   outFile, auxVars>>

\* production/main_hnl_production.cc
ScanParticleProd ==
    /\ driver = DriverProd /\ pc = "scan" /\ iScan < size(event)
    /\ LET i == iScan
           p == at(event, i)
       IN  IF abs(p.id) # HNL_ID
           THEN /\ iScan' = iScan + 1
                /\ UNCHANGED <<pc, exitCode, rows, parentPdg, nHNLfound, warnings>>
           ELSE LET parent == findPhysicalParent_production(event, i)
                    invalid == leZero(p.m) \/ ~isfinite(p.m)
                    mass == IF invalid THEN Num(mHNL) ELSE p.m
                IN  /\ parentPdg' = parent
                    /\ warnings' = IF invalid THEN warnings + 1 ELSE warnings
                    /\ IF leZero(mass)
                       THEN /\ pc' = "exit" /\ exitCode' = 1
                            /\ UNCHANGED <<iScan, rows, nHNLfound>>
                       ELSE /\ rows' = Append(rows,
                                   [hnl_id |-> p.id, parent_pdg |-> parent,
                                    mass |-> p.m, divisor |-> mass])
                            /\ nHNLfound' = nHNLfound + 1
                            /\ iScan' = iScan + 1
                            /\ UNCHANGED <<pc, exitCode>>
    /\ UNCHANGED <<driver, mHNL, flavor, productionMode, log, table, event,
                   tauParentId, cardVars, nEvents, iEvent, nEventsProcessed,
                   nBcFiltered, initFailed, outFile, auxVars>>

\* production/main_hnl_single.cc
ScanParticleSingle ==
    /\ driver = DriverSingle /\ pc = "scan" /\ iScan < size(event)
    /\ LET iPrt == iScan
           prt == at(event, iPrt)
       IN  IF abs(prt.id) # llp_pdgid \/ ~isFinal(event, iPrt)
           THEN UNCHANGED <<rows, parentPdg, nHNLfound>>
           ELSE LET parent_id == findPhysicalParentId(event, iPrt, llp_pdgid)
                IN  /\ parentPdg' = parent_id
                    /\ IF parent_id = 0
                       THEN UNCHANGED <<rows, nHNLfound>>
                       ELSE /\ rows' = Append(rows, [id |-> prt.id, parent_id |-> parent_id])
                            /\ nHNLfound' = nHNLfound + 1
    /\ iScan' = iScan + 1
    /\ UNCHANGED <<driver, pc, mHNL, flavor, productionMode, log, table,
                   exitCode, event, tauParentId, cardVars, nEvents, iEvent,
                   nEventsProcessed, nBcFiltered, warnings, initFailed, outFile,
                   auxVars>>

\* the loop over i ends; the event loop moves on to the next event
EndScan ==
    /\ pc = "scan" /\ iScan >= size(event)
    /\ pc' = "loop"
    /\ iEvent' = iEvent + 1
    /\ UNCHANGED <<driver, mHNL, flavor, productionMode, log, table, exitCode,
                   event, iScan, rows, parentPdg, tauParentId, cardVars,
                   nEvents, nEventsProcessed, nHNLfound, nBcFiltered, warnings,
                   initFailed, outFile, auxVars>>

InitScan ==
    /\ driver \in {DriverPP, DriverProd, DriverSingle}
    /\ pc = "scan"
    /\ mHNL = ChainMass
    /\ flavor = "muon"
    /\ productionMode = "direct"
    /\ qcdMode = "auto"
    /\ nEvents = 1
    /\ proc = <<>>
    /\ Untouched
    /\ event \in Events(candidateId(driver))

NextScan == ScanParticlePP \/ ScanParticleProd \/ ScanParticleSingle \/ EndScan

SpecScan == InitScan /\ [][NextScan]_vars

(***************************************************************************)
(* The events the engine generates in a run of the multi-mode drivers.     *)
(* A candidate appears only as a decay product of a species whose decay    *)
(* table carries an enabled candidate channel and that may decay; in a     *)
(* tau-chain event the tau comes from a species that decays to it.  The    *)
(* candidate's reported mass is the nominal one or an anomaly.             *)
(***************************************************************************)
MaxEvents == 2

\* species id decays, by an enabled forced channel, to a product x
Emits(id, x) ==
    /\ table[id].mayDecay
    /\ \E k \in 1..Len(table[id].chans) :
          table[id].chans[k].on /\ Contains(table[id].chans[k].prods, x)

\* species id can decay to a tau: by a forced channel or by its defaults
EmitsTau(id, t) == Emits(id, t) \/ (table[id].mayDecay /\ table[id].defaultOn)

MassReports == {Num(candidate.m0), Num(0), NaN, PosInf}

EventParents == {321, 541, -521}
TauSources == {541, -431}

WithMass(ev, i, x) == [ev EXCEPT ![i + 1].m = x]

\* an event without a candidate; when some species is set to produce the
\* candidate: a candidate whose mother link is absent, a candidate below a
\* direct parent, and a candidate below a tau below its source
GeneratedEvents ==
    { Chain(<<521>>) }
    \cup (IF \E q \in TableIds : Emits(q, HNL_ID) THEN { Chain(<<HNL_ID>>) } ELSE {})
    \cup { WithMass(Chain(<<p, HNL_ID>>), 2, x) :
              p \in { q \in EventParents : Emits(q, HNL_ID) }, x \in MassReports }
    \cup { WithMass(Chain(<<g, IF g > 0 THEN -15 ELSE 15, HNL_ID>>), 3, x) :
              g \in { q \in TauSources :
                        LET t == IF q > 0 THEN -15 ELSE 15
                        IN  EmitsTau(q, t) /\ Emits(t, HNL_ID) },
              x \in MassReports }

(***************************************************************************)
(* main() of the multi-mode drivers after engine initialization            *)
(***************************************************************************)
OpenOutput ==
    /\ driver \in Drivers /\ pc = "initialized"
    /\ \E ok \in BOOLEAN :
          IF ok
          THEN pc' = "loop" /\ exitCode' = exitCode /\ outFile' = "open"
          ELSE pc' = "exit" /\ exitCode' = 1 /\ outFile' = "failed"
    /\ UNCHANGED <<driver, mHNL, flavor, productionMode, log, table,
                   event, iScan, rows, parentPdg, tauParentId, cardVars,
                   nEvents, iEvent, nEventsProcessed, nHNLfound, nBcFiltered,
                   warnings, initFailed, auxVars>>

\* variant: a failed generation step is counted as a processed event
NextEvent_countFailed ==
    /\ driver \in Drivers /\ pc = "loop" /\ iEvent < nEvents
    /\ \/ /\ iEvent' = iEvent + 1
          /\ UNCHANGED <<pc, event, iScan>>
       \/ /\ \E ev \in GeneratedEvents : event' = ev
          /\ iScan' = 0
          /\ pc' = "scan"
          /\ iEvent' = iEvent
    /\ nEventsProcessed' = nEventsProcessed + 1
    /\ UNCHANGED <<driver, mHNL, flavor, productionMode, log, table, exitCode,
                   rows, parentPdg, tauParentId, cardVars, nEvents, nHNLfound,
                   nBcFiltered, warnings, initFailed, outFile, auxVars>>

\* variant: the decay channels are configured again for every event
NextEvent_reconfigure ==
    /\ driver \in Drivers /\ pc = "loop" /\ iEvent < nEvents
    /\ \/ /\ iEvent' = iEvent + 1
          /\ UNCHANGED <<pc, event, iScan, nEventsProcessed>>
       \/ /\ \E ev \in GeneratedEvents : event' = ev
          /\ nEventsProcessed' = nEventsProcessed + 1
          /\ iScan' = 0
          /\ pc' = "scan"
          /\ iEvent' = iEvent
    /\ log' = log \o channelCommands
    /\ table' = readStrings(table, channelCommands)
    /\ UNCHANGED <<driver, mHNL, flavor, productionMode, exitCode,
                   rows, parentPdg, tauParentId, cardVars, nEvents, nHNLfound,
                   nBcFiltered, warnings, initFailed, outFile, auxVars>>

\* one turn of the event loop up to the candidate scan: pythia.next()
NextEvent ==
    /\ driver \in Drivers /\ pc = "loop" /\ iEvent < nEvents
    /\ \/ /\ iEvent' = iEvent + 1
          /\ UNCHANGED <<pc, event, iScan, nEventsProcessed>>
       \/ /\ \E ev \in GeneratedEvents : event' = ev
          /\ nEventsProcessed' = nEventsProcessed + 1
          /\ iScan' = 0
          /\ pc' = "scan"
          /\ iEvent' = iEvent
    /\ UNCHANGED <<driver, mHNL, flavor, productionMode, log, table, exitCode,
                   rows, parentPdg, tauParentId, cardVars, nEvents, nHNLfound,
                   nBcFiltered, warnings, initFailed, outFile, auxVars>>

\* the event loop is over: close the output, print the statistics, return 0
Finish ==
    /\ driver \in Drivers /\ pc = "loop" /\ iEvent >= nEvents
    /\ outFile' = "closed"
    /\ pc' = "exit"
    /\ exitCode' = 0
    /\ UNCHANGED <<driver, mHNL, flavor, productionMode, log, table,
                   event, iScan, rows, parentPdg, tauParentId, cardVars,
                   nEvents, iEvent, nEventsProcessed, nHNLfound, nBcFiltered,
                   warnings, initFailed, auxVars>>

\* a zero or negative mass argument, the two example masses, a mass in the
\* charm regime and a mass above every parent
RunMasses == {0, 300000, 1000000, 3000000, 7000000}

InitRun ==
    /\ driver \in Drivers
    /\ pc = "start"
    /\ mHNL \in RunMasses
    /\ flavor \in {"muon", "tau"}
    /\ productionMode \in {"direct", "fromTau"}
    /\ qcdMode \in IF driver = DriverPP THEN {"auto", "hardBc"} ELSE {"auto"}
    /\ nEvents \in 0..MaxEvents
    /\ event = <<>>
    /\ proc = <<>>
    /\ Untouched

NextRun ==
    \/ ValidateArgs \/ ReadCard \/ DefineHNL \/ ConfigureChannels \/ InitEngine
    \/ OpenOutput \/ NextEvent \/ ScanParticlePP \/ ScanParticleProd \/ EndScan
    \/ Finish

SpecRun == InitRun /\ [][NextRun]_vars

(***************************************************************************)
(* The single-mass drivers main_hnl_single.cc,                             *)
(* pythiaStuff/main_hnl_single.cc and production/main_hnl_single.cc, and   *)
(* the mass-scan driver pythiaStuff/main_hnl_scan.cc                       *)
(***************************************************************************)
DriverRootSingle == "main_hnl_single.cc"
DriverStuffSingle == "pythiaStuff/main_hnl_single.cc"
DriverScan == "pythiaStuff/main_hnl_scan.cc"
SingleDrivers == {DriverRootSingle, DriverStuffSingle, DriverSingle}

\* ::tolower applied to each character of the flavor argument
tolower(f) ==
    IF f = "Tau" THEN "tau"
    ELSE IF f = "MUON" THEN "muon"
    ELSE f

\* getLeptonIDs: the lepton id, -1 for an unknown flavor
getLeptonIDs(f) ==
    LET lowerFlavor == tolower(f)
    IN  IF lowerFlavor \in {"electron", "e"} THEN 11
        ELSE IF lowerFlavor \in {"muon", "mu"} THEN 13
        ELSE IF lowerFlavor = "tau" THEN 15
        ELSE -1

getLeptonName(leptonID) ==
    IF leptonID = 11 THEN "electron"
    ELSE IF leptonID = 13 THEN "muon"
    ELSE IF leptonID = 15 THEN "tau"
    ELSE "unknown"

\* the mass printed with one decimal (std::fixed, std::setprecision(1)),
\* in tenths of a GeV
massStr(m) == (m + 50000) \div 100000

\* the two temporary card paths of a run: prefix, lepton name, mass label.
\* main_hnl_single.cc and pythiaStuff/main_hnl_single.cc label the file with
\* the mass printed to one decimal; production/main_hnl_single.cc with
\* makeMassLabel of the whole mass argument, which keeps every digit.
cardLowMassOf(d, leptonName, m) ==
    IF d = DriverRootSingle
    THEN <<"tmp/hnl_LowMass_", leptonName, massStr(m)>>
    ELSE IF d = DriverStuffSingle
    THEN <<"hnl_LowMass_", leptonName, massStr(m)>>
    ELSE <<"../tmp/hnl_Meson_", leptonName, m>>

cardHighMassOf(d, leptonName, m) ==
    IF d = DriverRootSingle
    THEN <<"tmp/hnl_HighMass_", leptonName, massStr(m)>>
    ELSE IF d = DriverStuffSingle
    THEN <<"hnl_HighMass_", leptonName, massStr(m)>>
    ELSE <<"../tmp/hnl_EW_", leptonName, m>>

cardLowMass == cardLowMassOf(driver, getLeptonName(getLeptonIDs(flavor)), mHNL)

cardHighMass == cardHighMassOf(driver, getLeptonName(getLeptonIDs(flavor)), mHNL)

\* variant: the destructor forgets to remove the file
ScopedFileRemover_dtor_keep(fs, filename_) == fs

\* ~ScopedFileRemover: the files left after the destructor has run
ScopedFileRemover_dtor(fs, filename_) ==
    IF filename_ # <<>> THEN fs \ {filename_} ELSE fs

ParseArgs ==
    /\ driver \in SingleDrivers /\ pc = "start"
    /\ IF getLeptonIDs(flavor) = -1
       THEN pc' = "exit" /\ exitCode' = 1
       ELSE pc' = "parsed" /\ exitCode' = exitCode
    /\ UNCHANGED <<driver, mHNL, flavor, productionMode, log, table,
                   event, iScan, rows, parentPdg, tauParentId,
                   cardVars, loopVars, auxVars>>

\* the two ScopedFileRemover objects are constructed
RegisterCleanup ==
    /\ driver \in SingleDrivers /\ pc = "parsed"
    /\ scoped' = <<cardLowMass, cardHighMass>>
    /\ pc' = "registered"
    /\ UNCHANGED <<driver, mHNL, flavor, productionMode, log, table, exitCode,
                   event, iScan, rows, parentPdg, tauParentId,
                   cardVars, loopVars, tableOnce, files, removed, oobRead,
                   writtenIDs, iMass,
                   proc, cardWriter>>

\* both generateConfigFromTemplate calls and the check of their results
GenerateCards ==
    /\ driver \in SingleDrivers /\ pc = "registered"
    /\ \E lowMassGenerated, highMassGenerated \in BOOLEAN :
          /\ files' = files \cup (IF lowMassGenerated THEN {cardLowMass} ELSE {})
                            \cup (IF highMassGenerated THEN {cardHighMass} ELSE {})
          /\ IF ~lowMassGenerated \/ ~highMassGenerated
             THEN pc' = "unwind" /\ exitCode' = 1
             ELSE pc' = "generated" /\ exitCode' = exitCode
    /\ UNCHANGED <<driver, mHNL, flavor, productionMode, log, table,
                   event, iScan, rows, parentPdg, tauParentId,
                   cardVars, loopVars, tableOnce, scoped, removed, oobRead,
                   writtenIDs, iMass,
                   proc, cardWriter>>

\* the 3-body to 2-body switch of pythiaStuff/main_hnl_single.cc and
\* pythiaStuff/main_hnl_scan.cc
twoBodySwitch(leptonID) ==
    << onModeOff(521), addChannel(521, 100, <<-leptonID, 9900015>>),
       onModeOff(-521), addChannel(-521, 100, <<leptonID, 9900015>>),
       onModeOff(531), addChannel(531, 100, <<-leptonID, 9900015>>),
       onModeOff(-531), addChannel(-531, 100, <<leptonID, 9900015>>),
       onModeOff(511), onModeOff(-511), onModeOff(5122), onModeOff(-5122) >>

\* the readString commands a single-mass or scan driver issues for mass mN
legacyCommands(d, leptonID, mN) ==
    LET threshold_3body_to_2body == IF leptonID = 15 THEN 1650000 ELSE 3300000
    IN  IF d \in {DriverStuffSingle, DriverScan}
           /\ mN < 5000000 /\ mN > threshold_3body_to_2body
        THEN twoBodySwitch(leptonID)
        ELSE <<>>

\* what a generated card says of species 9900015: long-lived and not to be
\* decayed, or left to the engine to decay.  The card templates are data
\* files outside the sources; the drivers read whatever they hold.
CardDeclarations ==
    { [stable |-> TRUE, mayDecay |-> FALSE], [stable |-> FALSE, mayDecay |-> TRUE] }

\* variant: production/main_hnl_single.cc also leaves may-decay to the card
legacyCandidate_cardOnly(d, cardOK, decl, mN) ==
    IF ~cardOK THEN [Undefined EXCEPT !.m0 = mN]
    ELSE [defined |-> TRUE, m0 |-> mN,
          stable |-> decl.stable, mayDecay |-> decl.mayDecay]

\* the candidate's particle data after the card and the readString calls
\* that follow it: every driver sets m0; only production/main_hnl_single.cc
\* also issues "9900015:mayDecay = off" and "9900015:tau0 = 1e6".  A
\* species the card did not define is not created by those commands.
legacyCandidate(d, cardOK, decl, mN) ==
    IF ~cardOK THEN [Undefined EXCEPT !.m0 = mN]
    ELSE IF d = DriverSingle
    THEN [defined |-> TRUE, m0 |-> mN, stable |-> TRUE, mayDecay |-> FALSE]
    ELSE [defined |-> TRUE, m0 |-> mN,
          stable |-> decl.stable, mayDecay |-> decl.mayDecay]

\* card choice, the unchecked readFile, the mass and the logging settings
SetupEngine ==
    /\ driver \in SingleDrivers /\ pc = "generated"
    /\ LET cmds == legacyCommands(driver, getLeptonIDs(flavor), mHNL)
       IN  /\ log' = log \o cmds
           /\ table' = readStrings(table, cmds)
    /\ regime' = IF mHNL < 5000000
                 THEN (IF driver = DriverSingle THEN "Meson" ELSE "LowMass")
                 ELSE (IF driver = DriverSingle THEN "EW" ELSE "HighMass")
    /\ cardName' = IF mHNL < 5000000 THEN "cardLowMass" ELSE "cardHighMass"
    /\ \E cardOK \in BOOLEAN, decl \in CardDeclarations :
          /\ settings' = IF cardOK THEN [source |-> "card", process |-> "card"]
                         ELSE [source |-> "none", process |-> "none"]
          /\ candidate' = legacyCandidate(driver, cardOK, decl, mHNL)
    /\ pc' = "configured"
    /\ UNCHANGED <<driver, mHNL, flavor, productionMode, exitCode,
                   event, iScan, rows, parentPdg, tauParentId,
                   qcdMode, loopVars, auxVars>>

InitEngineSingle ==
    /\ driver \in SingleDrivers /\ pc = "configured"
    /\ \E ok \in BOOLEAN :
          IF ok
          THEN pc' = "initialized" /\ exitCode' = exitCode /\ initFailed' = initFailed
          ELSE pc' = "unwind" /\ exitCode' = 1 /\ initFailed' = TRUE
    /\ UNCHANGED <<driver, mHNL, flavor, productionMode, log, table,
                   event, iScan, rows, parentPdg, tauParentId,
                   cardVars, nEvents, iEvent, nEventsProcessed, nHNLfound,
                   nBcFiltered, warnings, outFile, auxVars>>

\* only production/main_hnl_single.cc checks that the output file is open
OpenOutputSingle ==
    /\ driver \in SingleDrivers /\ pc = "initialized"
    /\ \E ok \in BOOLEAN :
          /\ outFile' = IF ok THEN "open" ELSE "failed"
          /\ IF ~ok /\ driver = DriverSingle
             THEN pc' = "unwind" /\ exitCode' = 1
             ELSE pc' = "loop" /\ exitCode' = exitCode
    /\ UNCHANGED <<driver, mHNL, flavor, productionMode, log, table,
                   event, iScan, rows, parentPdg, tauParentId, cardVars,
                   nEvents, iEvent, nEventsProcessed, nHNLfound, nBcFiltered,
                   warnings, initFailed, auxVars>>

\* the events of the single-mass and scan runs: a mother and a daughter,
\* each the candidate or a B+, with one link possibly replaced
PairEvents(cand) ==
    UNION { OneLinkReplaced(Chain(ids)) : ids \in [1..2 -> {cand, 521}] }

NextEventLegacy ==
    /\ driver \in SingleDrivers \cup {DriverScan}
    /\ pc = "loop" /\ iEvent < nEvents
    /\ \/ /\ iEvent' = iEvent + 1
          /\ UNCHANGED <<pc, event, iScan, writtenIDs>>
       \/ /\ \E ev \in PairEvents(llp_pdgid) : event' = ev
          /\ iScan' = 0
          /\ writtenIDs' = {}
          /\ pc' = "scan"
          /\ iEvent' = iEvent
    /\ UNCHANGED <<driver, mHNL, flavor, productionMode, log, table, exitCode,
                   rows, parentPdg, tauParentId, cardVars, nEvents,
                   nEventsProcessed, nHNLfound, nBcFiltered, warnings,
                   initFailed, outFile, tableOnce, files, scoped, removed,
                   oobRead, iMass,
                   proc, cardWriter>>

\* what reading pythia.event[k] with k >= size() can give: the bounds-checked
\* accessor throws and the program is terminated, or it hands back whatever
\* lies behind the records
OutOfRangeIds == {0, 521, 9900015}

\* a row reaches the file only if the stream is open
Written(rs, row) == IF outFile = "failed" THEN rs ELSE Append(rs, row)

\* the "Parent Check" of main_hnl_single.cc and
\* pythiaStuff/main_hnl_single.cc, then the row
UncheckedParentRow(prt) ==
    IF prt.mother1 > 0 /\ prt.mother1 >= size(event)
    THEN /\ oobRead' = TRUE
         /\ \/ /\ pc' = "abort" /\ exitCode' = 134
               /\ UNCHANGED <<iScan, rows, parentPdg, nHNLfound>>
            \/ \E parent_id \in OutOfRangeIds :
                  /\ parentPdg' = parent_id
                  /\ rows' = Written(rows, [id |-> prt.id, parent_id |-> parent_id])
                  /\ nHNLfound' = nHNLfound + 1
                  /\ iScan' = iScan + 1
                  /\ UNCHANGED <<pc, exitCode>>
    ELSE LET parent_id == IF prt.mother1 > 0 THEN at(event, prt.mother1).id ELSE 0
         IN  /\ parentPdg' = parent_id
             /\ rows' = Written(rows, [id |-> prt.id, parent_id |-> parent_id])
             /\ nHNLfound' = nHNLfound + 1
             /\ iScan' = iScan + 1
             /\ UNCHANGED <<pc, exitCode, oobRead>>

\* main_hnl_single.cc
ScanParticleRoot ==
    /\ driver = DriverRootSingle /\ pc = "scan" /\ iScan < size(event)
    /\ LET iPrt == iScan
           prt == at(event, iPrt)
       IN  IF abs(prt.id) # llp_pdgid \/ ~isFinal(event, iPrt)
           THEN /\ iScan' = iScan + 1
                /\ UNCHANGED <<pc, exitCode, rows, parentPdg, nHNLfound, oobRead>>
           ELSE UncheckedParentRow(prt)
    /\ UNCHANGED <<driver, mHNL, flavor, productionMode, log, table, event,
                   tauParentId, cardVars, nEvents, iEvent, nEventsProcessed,
                   nBcFiltered, warnings, initFailed, outFile, tableOnce, files,
                   scoped, removed, writtenIDs, iMass,
                   proc, cardWriter>>

\* pythiaStuff/main_hnl_single.cc
ScanParticleStuff ==
    /\ driver = DriverStuffSingle /\ pc = "scan" /\ iScan < size(event)
    /\ LET iPrt == iScan
           prt == at(event, iPrt)
       IN  IF abs(prt.id) # llp_pdgid \/ prt.id \in writtenIDs
           THEN /\ iScan' = iScan + 1
                /\ UNCHANGED <<pc, exitCode, rows, parentPdg, nHNLfound, oobRead,
                               writtenIDs>>
           ELSE /\ UncheckedParentRow(prt)
                /\ writtenIDs' = IF pc' = "abort" THEN writtenIDs
                                 ELSE writtenIDs \cup {prt.id}
    /\ UNCHANGED <<driver, mHNL, flavor, productionMode, log, table, event,
                   tauParentId, cardVars, nEvents, iEvent, nEventsProcessed,
                   nBcFiltered, warnings, initFailed, outFile, tableOnce, files,
                   scoped, removed, iMass,
                   proc, cardWriter>>

\* pythiaStuff/main_hnl_scan.cc
ScanParticleScan ==
    /\ driver = DriverScan /\ pc = "scan" /\ iScan < size(event)
    /\ LET iPrt == iScan
           prt == at(event, iPrt)
       IN  IF abs(prt.id) # llp_pdgid \/ prt.id \in writtenIDs
           THEN UNCHANGED <<rows, parentPdg, nHNLfound, writtenIDs>>
           ELSE LET idxMother == prt.mother1
                    parent_id == IF idxMother > 0 /\ idxMother < size(event)
                                 THEN at(event, idxMother).id ELSE 0
                IN  /\ parentPdg' = parent_id
                    /\ rows' = Written(rows, [id |-> prt.id, parent_id |-> parent_id])
                    /\ writtenIDs' = writtenIDs \cup {prt.id}
                    /\ nHNLfound' = nHNLfound + 1
    /\ iScan' = iScan + 1
    /\ UNCHANGED <<driver, pc, mHNL, flavor, productionMode, log, table,
                   exitCode, event, tauParentId, cardVars, nEvents, iEvent,
                   nEventsProcessed, nBcFiltered, warnings, initFailed, outFile,
                   tableOnce, files, scoped, removed, oobRead, iMass,
                   proc, cardWriter>>

\* the event loop of a single-mass driver is over: close the file, return 0
FinishSingle ==
    /\ driver \in SingleDrivers /\ pc = "loop" /\ iEvent >= nEvents
    /\ outFile' = "closed"
    /\ pc' = "unwind"
    /\ exitCode' = 0
    /\ UNCHANGED <<driver, mHNL, flavor, productionMode, log, table,
                   event, iScan, rows, parentPdg, tauParentId, cardVars,
                   nEvents, iEvent, nEventsProcessed, nHNLfound, nBcFiltered,
                   warnings, initFailed, auxVars>>

\* main() is being left: the most recently constructed live
\* ScopedFileRemover is destroyed
DestroyRemover ==
    /\ pc = "unwind" /\ scoped # <<>>
    /\ LET filename_ == scoped[Len(scoped)]
       IN  /\ files' = ScopedFileRemover_dtor(files, filename_)
           /\ removed' = IF filename_ # <<>> THEN Append(removed, filename_)
                         ELSE removed
    /\ scoped' = SubSeq(scoped, 1, Len(scoped) - 1)
    /\ UNCHANGED <<driver, pc, mHNL, flavor, productionMode, log, table, exitCode,
                   event, iScan, rows, parentPdg, tauParentId,
                   cardVars, loopVars, tableOnce, oobRead, writtenIDs, iMass,
                   proc, cardWriter>>

\* every local has been destroyed: the process ends
ExitMain ==
    /\ pc = "unwind" /\ scoped = <<>>
    /\ pc' = "exit"
    /\ UNCHANGED <<driver, mHNL, flavor, productionMode, log, table, exitCode,
                   event, iScan, rows, parentPdg, tauParentId,
                   cardVars, loopVars, auxVars>>

\* below the 2-body switch, inside it, and in the high-mass regime
SingleMasses == {3000000, 4000000, 6000000}
SingleFlavors == {"muon", "Tau", "positron"}

InitSingle ==
    /\ driver \in SingleDrivers
    /\ pc = "start"
    /\ mHNL \in SingleMasses
    /\ flavor \in SingleFlavors
    /\ productionMode = "direct"
    /\ qcdMode = "auto"
    /\ nEvents = MaxEvents
    /\ event = <<>>
    /\ proc = <<>>
    /\ Untouched

NextSingle ==
    \/ ParseArgs \/ RegisterCleanup \/ GenerateCards \/ SetupEngine
    \/ InitEngineSingle \/ OpenOutputSingle \/ NextEventLegacy
    \/ ScanParticleRoot \/ ScanParticleStuff \/ ScanParticleSingle \/ EndScan
    \/ FinishSingle \/ DestroyRemover \/ ExitMain

SpecSingle == InitSingle /\ [][NextSingle]_vars

(***************************************************************************)
(* main() of pythiaStuff/main_hnl_scan.cc: one engine per mass point       *)
(***************************************************************************)
massPoints ==
    << 1000000, 2000000, 3000000, 3500000, 4000000, 4500000,
       10000000, 20000000, 40000000, 60000000, 80000000 >>

\* steps A and B up to the init call: a fresh engine, the card, the 2-body
\* switch, the mass
ScanLoadRegime ==
    /\ driver = DriverScan /\ pc = "nextMass" /\ iMass < Len(massPoints)
    /\ LET mN == massPoints[iMass + 1]
           cmds == legacyCommands(driver, 13, mN)
       IN  /\ mHNL' = mN
           /\ log' = cmds
           /\ table' = readStrings(EngineDefaults, cmds)
           /\ regime' = IF mN < 5000000 THEN "LowMass" ELSE "HighMass"
           /\ cardName' = IF mN < 5000000 THEN "cardLowMass" ELSE "cardHighMass"
           /\ \E cardOK \in BOOLEAN, decl \in CardDeclarations :
                 /\ settings' = IF cardOK THEN [source |-> "card", process |-> "card"]
                                ELSE [source |-> "none", process |-> "none"]
                 /\ candidate' = legacyCandidate(driver, cardOK, decl, mN)
    /\ pc' = "configured"
    /\ UNCHANGED <<driver, flavor, productionMode, exitCode,
                   event, iScan, rows, parentPdg, tauParentId,
                   qcdMode, loopVars, auxVars>>

\* a failed initialization skips the mass point
ScanInitEngine ==
    /\ driver = DriverScan /\ pc = "configured"
    /\ \E ok \in BOOLEAN :
          IF ok
          THEN pc' = "initialized" /\ initFailed' = initFailed /\ iMass' = iMass
          ELSE pc' = "nextMass" /\ initFailed' = TRUE /\ iMass' = iMass + 1
    /\ UNCHANGED <<driver, mHNL, flavor, productionMode, log, table, exitCode,
                   event, iScan, rows, parentPdg, tauParentId,
                   cardVars, nEvents, iEvent, nEventsProcessed, nHNLfound,
                   nBcFiltered, warnings, outFile, tableOnce, files, scoped,
                   removed, oobRead, writtenIDs,
                   proc, cardWriter>>

\* step C: the output file of the mass point, opened without a check
ScanOpenOutput ==
    /\ driver = DriverScan /\ pc = "initialized"
    /\ \E ok \in BOOLEAN : outFile' = IF ok THEN "open" ELSE "failed"
    /\ rows' = <<>>
    /\ nHNLfound' = 0
    /\ iEvent' = 0
    /\ pc' = "loop"
    /\ UNCHANGED <<driver, mHNL, flavor, productionMode, log, table, exitCode,
                   event, iScan, parentPdg, tauParentId, cardVars, nEvents,
                   nEventsProcessed, nBcFiltered, warnings, initFailed, auxVars>>

\* the event loop of the mass point is over
ScanCloseOutput ==
    /\ driver = DriverScan /\ pc = "loop" /\ iEvent >= nEvents
    /\ outFile' = "closed"
    /\ iMass' = iMass + 1
    /\ pc' = "nextMass"
    /\ UNCHANGED <<driver, mHNL, flavor, productionMode, log, table, exitCode,
                   event, iScan, rows, parentPdg, tauParentId, cardVars,
                   nEvents, iEvent, nEventsProcessed, nHNLfound, nBcFiltered,
                   warnings, initFailed, tableOnce, files, scoped, removed,
                   oobRead, writtenIDs,
                   proc, cardWriter>>

\* all mass points done: return 0
ScanDone ==
    /\ driver = DriverScan /\ pc = "nextMass" /\ iMass >= Len(massPoints)
    /\ pc' = "exit"
    /\ exitCode' = 0
    /\ UNCHANGED <<driver, mHNL, flavor, productionMode, log, table,
                   event, iScan, rows, parentPdg, tauParentId,
                   cardVars, loopVars, auxVars>>

InitMassScan ==
    /\ driver = DriverScan
    /\ pc = "nextMass"
    /\ mHNL = 0
    /\ flavor = "muon"
    /\ productionMode = "direct"
    /\ qcdMode = "auto"
    /\ nEvents = MaxEvents
    /\ event = <<>>
    /\ proc = <<>>
    /\ Untouched

NextMassScan ==
    \/ ScanLoadRegime \/ ScanInitEngine \/ ScanOpenOutput \/ NextEventLegacy
    \/ ScanParticleScan \/ EndScan \/ ScanCloseOutput \/ ScanDone

SpecMassScan == InitMassScan /\ [][NextMassScan]_vars

(***************************************************************************)
(* Two runs of one single-mass driver started at the same time in the same *)
(* directory, with the same flavour and different mass arguments.  Each    *)
(* run goes through the steps of main() that touch the temporary card      *)
(* files: the removers are constructed, both cards are generated, the card *)
(* of the regime is read, and on return the removers delete both files.    *)
(* The steps of the two runs interleave freely.                            *)
(***************************************************************************)
Runs == 1..2

lowOf(p) == cardLowMassOf(driver, getLeptonName(getLeptonIDs(flavor)), proc[p].mass)
highOf(p) == cardHighMassOf(driver, getLeptonName(getLeptonIDs(flavor)), proc[p].mass)

\* argument parsing and the construction of the two ScopedFileRemover objects
RunRegister(p) ==
    /\ proc[p].pc = "start"
    /\ proc' = [proc EXCEPT ![p].pc =
                   IF getLeptonIDs(flavor) = -1 THEN "exit" ELSE "registered"]
    /\ UNCHANGED <<driver, pc, mHNL, flavor, productionMode, log, table, exitCode,
                   event, iScan, rows, parentPdg, tauParentId, cardVars, loopVars,
                   tableOnce, files, scoped, removed, oobRead, writtenIDs, iMass,
                   cardWriter>>

\* both generateConfigFromTemplate calls: each opens its output file for
\* writing, which creates it or replaces what it held
RunGenerate(p) ==
    /\ proc[p].pc = "registered"
    /\ \E lowMassGenerated, highMassGenerated \in BOOLEAN :
          LET written == (IF lowMassGenerated THEN {lowOf(p)} ELSE {})
                         \cup (IF highMassGenerated THEN {highOf(p)} ELSE {})
          IN  /\ files' = files \cup written
              /\ cardWriter' = { w \in cardWriter : w[1] \notin written }
                               \cup { <<f, p>> : f \in written }
              /\ proc' = [proc EXCEPT ![p].pc =
                             IF ~lowMassGenerated \/ ~highMassGenerated
                             THEN "unwindHigh" ELSE "generated"]
    /\ UNCHANGED <<driver, pc, mHNL, flavor, productionMode, log, table, exitCode,
                   event, iScan, rows, parentPdg, tauParentId, cardVars, loopVars,
                   tableOnce, scoped, removed, oobRead, writtenIDs, iMass>>

\* pythia.readFile on the card of the regime: the file is gone, or is the
\* one the other run wrote, or is the run's own
RunReadCard(p) ==
    /\ proc[p].pc = "generated"
    /\ LET card == IF proc[p].mass < 5000000 THEN lowOf(p) ELSE highOf(p)
       IN  proc' = [proc EXCEPT ![p].pc = "running",
                                ![p].read = IF card \notin files THEN "missing"
                                            ELSE IF <<card, p>> \in cardWriter THEN "own"
                                            ELSE "foreign"]
    /\ UNCHANGED <<driver, pc, mHNL, flavor, productionMode, log, table, exitCode,
                   event, iScan, rows, parentPdg, tauParentId, cardVars, loopVars,
                   tableOnce, files, scoped, removed, oobRead, writtenIDs, iMass,
                   cardWriter>>

\* main() returns, after a failed initialization or after the event loop
RunReturn(p) ==
    /\ proc[p].pc = "running"
    /\ proc' = [proc EXCEPT ![p].pc = "unwindHigh"]
    /\ UNCHANGED <<driver, pc, mHNL, flavor, productionMode, log, table, exitCode,
                   event, iScan, rows, parentPdg, tauParentId, cardVars, loopVars,
                   tableOnce, files, scoped, removed, oobRead, writtenIDs, iMass,
                   cardWriter>>

\* the removers are destroyed in reverse order of construction
RunDestroy(p) ==
    /\ proc[p].pc \in {"unwindHigh", "unwindLow"}
    /\ LET filename_ == IF proc[p].pc = "unwindHigh" THEN highOf(p) ELSE lowOf(p)
       IN  /\ files' = ScopedFileRemover_dtor(files, filename_)
           /\ cardWriter' = { w \in cardWriter :
                                w[1] \in ScopedFileRemover_dtor(files, filename_) }
    /\ proc' = [proc EXCEPT ![p].pc =
                   IF proc[p].pc = "unwindHigh" THEN "unwindLow" ELSE "exit"]
    /\ UNCHANGED <<driver, pc, mHNL, flavor, productionMode, log, table, exitCode,
                   event, iScan, rows, parentPdg, tauParentId, cardVars, loopVars,
                   tableOnce, scoped, removed, oobRead, writtenIDs, iMass>>

\* mass arguments that differ in the second decimal, in the first, and
\* across the 5 GeV regime boundary
TwoRunMasses == {3010000, 3040000, 3060000, 5200000}

InitTwoRuns ==
    /\ driver \in SingleDrivers
    /\ pc = "start"
    /\ flavor \in {"muon", "Tau"}
    /\ productionMode = "direct"
    /\ qcdMode = "auto"
    /\ nEvents = 0
    /\ event = <<>>
    /\ \E m1, m2 \in TwoRunMasses :
          /\ m1 # m2
          /\ mHNL = m1
          /\ proc = [p \in Runs |->
                        [pc |-> "start", mass |-> IF p = 1 THEN m1 ELSE m2,
                         read |-> "none"]]
    /\ Untouched

NextTwoRuns ==
    \E p \in Runs :
        RunRegister(p) \/ RunGenerate(p) \/ RunReadCard(p) \/ RunReturn(p) \/ RunDestroy(p)

SpecTwoRuns == InitTwoRuns /\ [][NextTwoRuns]_vars

(***************************************************************************)
(* Vocabulary of the properties                                            *)
(***************************************************************************)
\* the run has finished configuring its decay tables
Configured == pc \in {"configured", "initialized"}

\* parent id carries an enabled channel with exactly these decay products
Installed(id, prods) ==
    \E k \in 1..Len(table[id].chans) :
        table[id].chans[k].on /\ table[id].chans[k].prods = prods

\* the enabled appended channels of a parent
EnabledChans(id) ==
    { k \in 1..Len(table[id].chans) : table[id].chans[k].on }

TwoBodyEmitters == {321, 411, 431, 521, 541}

\* the 3-body emitters: parent, parent mass, daughter mass and the candidate
\* channels of the parent (ch) and of its charge conjugate (chBar)
ThreeBodyEmitters(lep) ==
    LET lepBar == -lep
        N == HNL_ID
    IN  { [p |-> 130, q |-> 130, M |-> MESON_MASSES[130], mD |-> mPiCharged,
           ch |-> <<-211, lepBar, N>>, chBar |-> <<211, lep, N>>],
          [p |-> 421, q |-> -421, M |-> MESON_MASSES[421], mD |-> MESON_MASSES[321],
           ch |-> <<-321, lepBar, N>>, chBar |-> <<321, lep, N>>],
          [p |-> 411, q |-> -411, M |-> MESON_MASSES[411], mD |-> mK0,
           ch |-> <<-311, lepBar, N>>, chBar |-> <<311, lep, N>>],
          [p |-> 511, q |-> -511, M |-> MESON_MASSES[511], mD |-> MESON_MASSES[411],
           ch |-> <<-411, lepBar, N>>, chBar |-> <<411, lep, N>>],
          [p |-> 521, q |-> -521, M |-> MESON_MASSES[521], mD |-> MESON_MASSES[421],
           ch |-> <<-421, lepBar, N>>, chBar |-> <<421, lep, N>>],
          [p |-> 531, q |-> -531, M |-> MESON_MASSES[531], mD |-> MESON_MASSES[431],
           ch |-> <<-431, lepBar, N>>, chBar |-> <<431, lep, N>>],
          [p |-> 5122, q |-> -5122, M |-> mLb, mD |-> mLc,
           ch |-> <<4122, lep, N>>, chBar |-> <<-4122, lepBar, N>>],
          [p |-> 4122, q |-> -4122, M |-> mLc, mD |-> mLambda0,
           ch |-> <<3122, lep, N>>, chBar |-> <<-3122, lepBar, N>>] }

\* the 3-body channel of emitter e is installed on both charge states
Installed3(e) == Installed(e.p, e.ch) /\ Installed(e.q, e.chBar)
\* ... on neither
Absent3(e) == ~Installed(e.p, e.ch) /\ ~Installed(e.q, e.chBar)

(***************************************************************************)
(* C1: after configureMesonDecays, each 2-body emitter (K+, D+, Ds+, B+,   *)
(* Bc+) carries the parent -> lepton + candidate channel, on both charge   *)
(* states, if and only if m < M - mL; at m = M - mL and above it carries   *)
(* none.                                                                   *)
(***************************************************************************)
TwoBodyIffBelowThreshold ==
    (Configured /\ productionMode = "direct") =>
        \A p \in TwoBodyEmitters :
            LET lep == getLeptonID(flavor)
                open == mHNL < MESON_MASSES[p] - getLeptonMass(flavor)
            IN  /\ Installed(p, <<-lep, HNL_ID>>) <=> open
                /\ Installed(-p, <<lep, HNL_ID>>) <=> open

\* a muon run exactly at the D+ threshold: D+ closed, Ds+ open
TwoBodyAtThreshold ==
    /\ driver = DriverPP /\ pc = "configured" /\ productionMode = "direct"
    /\ flavor = "muon"
    /\ mHNL = MESON_MASSES[411] - M_MUON
    /\ ~Installed(411, <<-13, HNL_ID>>)
    /\ Installed(431, <<-13, HNL_ID>>)

SplitHalfHalf ==
    (Configured /\ productionMode = "direct") =>
        \A e \in ThreeBodyEmitters(getLeptonID(flavor)) :
            (e.p \in {411, 521} /\ Installed3(e)) =>
                \A id \in {e.p, e.q} :
                    /\ Cardinality(EnabledChans(id)) = 2
                    /\ \A k \in EnabledChans(id) : table[id].chans[k].w = 50

(***************************************************************************)
(* C4 as stated: every candidate channel added to a parent the engine      *)
(* does not decay by default (K+/-, K_L) is preceded by the command that   *)
(* switches the parent's may-decay flag on, and no run reaches engine      *)
(* initialization with a forced channel on such a parent whose may-decay   *)
(* flag is off.                                                            *)
(***************************************************************************)
MayDecayBeforeChannel ==
    /\ \A j \in 1..Len(log) :
          (log[j].op = "addChannel" /\ log[j].id \in LongLived) =>
              \E i \in 1..(j - 1) : log[i] = mayDecayOn(log[j].id)
    /\ pc = "initialized" =>
          \A id \in LongLived : EnabledChans(id) # {} => table[id].mayDecay

(***************************************************************************)
(* C5 as stated: in fromTau mode, in every driver, each of Ds, B+, B0, Bs, *)
(* Bc (both charge states) has its default decay modes switched off and    *)
(* every enabled channel contains the tau and the tau neutrino.            *)
(***************************************************************************)
TauNuParents == {431, 521, 511, 531, 541}

ForcedToTauNu(id) ==
    LET s == IF id > 0 THEN 1 ELSE -1
    IN  /\ ~table[id].defaultOn
        /\ EnabledChans(id) # {}
        /\ \A k \in EnabledChans(id) :
              /\ Contains(table[id].chans[k].prods, -15 * s)
              /\ Contains(table[id].chans[k].prods, 16 * s)

MesonsForcedToTauNu ==
    (Configured /\ productionMode = "fromTau") =>
        \A p \in TauNuParents : ForcedToTauNu(p) /\ ForcedToTauNu(-p)

(***************************************************************************)
(* C5 amended: the statement holds in the pythia_production driver; the    *)
(* fromTau mode of production/main_hnl_production.cc forces only the tau   *)
(* and leaves the heavy mesons' decay tables at their defaults.            *)
(***************************************************************************)
MesonsForcedToTauNuPP ==
    (Configured /\ productionMode = "fromTau") =>
        \A p \in TauNuParents : \A id \in {p, -p} :
            IF driver = DriverPP
            THEN ForcedToTauNu(id)
            ELSE table[id] = EngineDefaults[id]

\* a fromTau run of the pythia_production driver, configured
FromTauConfiguredPP ==
    /\ driver = DriverPP /\ pc = "configured" /\ productionMode = "fromTau"
    /\ Installed(521, <<-423, -15, 16>>) /\ Installed(-541, <<15, -16>>)

(***************************************************************************)
(* C6 as stated: no fromTau run gets past argument validation to channel   *)
(* configuration and engine initialization with zero forced tau ->         *)
(* candidate channels; a request at or beyond the electron-channel         *)
(* threshold exits with a non-zero status first.                           *)
(***************************************************************************)
NoFromTauRunWithoutTauChannel ==
    (productionMode = "fromTau" /\ Configured) =>
        EnabledChans(15) # {} /\ EnabledChans(-15) # {}

(***************************************************************************)
(* Vocabulary of the parent-resolution properties                          *)
(***************************************************************************)
\* the loop body last ran on a candidate and resolved its parent
ScannedCandidate ==
    /\ iScan >= 1
    /\ abs(at(event, iScan - 1).id) = candidateId(driver)
    /\ driver = DriverSingle => isFinal(event, iScan - 1)

ValidMother(m) == m > 0 /\ m < size(event)

\* index of the mother of the earliest copy of particle i, -1 if a link on
\* the way is absent, non-positive or out of range
MotherOfTop(i) ==
    LET t == at(event, i).iTopCopy
    IN  IF InRange(event, t) /\ ValidMother(at(event, t).mother1)
        THEN at(event, t).mother1 ELSE -1

(***************************************************************************)
(* C7: when the mother of the candidate's earliest copy is itself of the   *)
(* candidate species (either sign), the resolved parent is 0.              *)
(***************************************************************************)
SelfParentingYieldsUnknown ==
    (ScannedCandidate /\ MotherOfTop(iScan - 1) # -1) =>
        (abs(at(event, MotherOfTop(iScan - 1)).id) = candidateId(driver)
            => parentPdg = 0)

\* a candidate whose earliest copy has the anti-candidate as mother
SelfParentingScanned ==
    /\ driver = DriverPP /\ ScannedCandidate
    /\ MotherOfTop(iScan - 1) # -1
    /\ at(event, iScan - 1).id = HNL_ID
    /\ at(event, MotherOfTop(iScan - 1)).id = -HNL_ID
    /\ parentPdg = 0

(***************************************************************************)
(* C8: for a one-step chain (the candidate is its own earliest copy, its   *)
(* mother link is valid, the mother is not of the candidate species) the   *)
(* resolved parent is exactly the mother's signed species id.              *)
(***************************************************************************)
OneStepChain(i) ==
    /\ at(event, i).iTopCopy = i
    /\ ValidMother(at(event, i).mother1)
    /\ abs(at(event, at(event, i).mother1).id) # candidateId(driver)

OneStepChainYieldsParent ==
    (ScannedCandidate /\ OneStepChain(iScan - 1)) =>
        parentPdg = at(event, at(event, iScan - 1).mother1).id

\* an antiparticle parent resolved with its sign
AntiParentResolved ==
    /\ driver = DriverSingle /\ ScannedCandidate /\ OneStepChain(iScan - 1)
    /\ at(event, at(event, iScan - 1).mother1).id = -541
    /\ parentPdg = -541
    /\ rows # <<>> /\ rows[Len(rows)].parent_id = -541

(***************************************************************************)
(* C9 as stated: for a two-stage chain grandparent -> tau -> candidate the *)
(* row's parent is the tau id and its tau_parent_id is the grandparent's   *)
(* id as recorded in the event, for grandparents of either sign.           *)
(***************************************************************************)
\* the candidate's resolved mother is a tau whose own earliest copy has a
\* valid mother
TwoStageChain(i) ==
    /\ MotherOfTop(i) # -1
    /\ abs(at(event, MotherOfTop(i)).id) = 15
    /\ MotherOfTop(MotherOfTop(i)) # -1

Grandparent(i) == at(event, MotherOfTop(MotherOfTop(i)))

\* the chain without intermediate copies: candidate and tau are their own
\* earliest copies and the grandparent is neither a tau nor a candidate
PlainTwoStageChain(i) ==
    /\ at(event, i).iTopCopy = i
    /\ TwoStageChain(i)
    /\ at(event, MotherOfTop(i)).iTopCopy = MotherOfTop(i)
    /\ abs(Grandparent(i).id) \notin {15, candidateId(driver)}

TwoStageRowSigned ==
    (driver = DriverPP /\ ScannedCandidate /\ PlainTwoStageChain(iScan - 1)) =>
        /\ rows[Len(rows)].parent_pdg = at(event, MotherOfTop(iScan - 1)).id
        /\ rows[Len(rows)].tau_parent_id = Grandparent(iScan - 1).id

(***************************************************************************)
(* C9 amended: the row's parent is the tau id (+15 or -15, signed) and its *)
(* tau_parent_id is the absolute value of the grandparent's id: the sign   *)
(* of the grandparent is dropped.                                          *)
(***************************************************************************)
TwoStageRowAbs ==
    (driver = DriverPP /\ ScannedCandidate /\ TwoStageChain(iScan - 1)) =>
        /\ rows[Len(rows)].parent_pdg = at(event, MotherOfTop(iScan - 1)).id
        /\ rows[Len(rows)].tau_parent_id = abs(Grandparent(iScan - 1).id)

\* Bc- -> tau- -> candidate written with tau_parent_id 541
TwoStageFromAntiBc ==
    /\ driver = DriverPP /\ ScannedCandidate /\ TwoStageChain(iScan - 1)
    /\ Grandparent(iScan - 1).id = -541
    /\ rows[Len(rows)].parent_pdg = 15
    /\ rows[Len(rows)].tau_parent_id = 541

(***************************************************************************)
(* C10 as stated: when the candidate's earliest-copy link is absent or out *)
(* of range, the resolved parent is 0.                                     *)
(***************************************************************************)
InvalidTopLinkYieldsUnknown ==
    (ScannedCandidate /\ ~InRange(event, at(event, iScan - 1).iTopCopy)) =>
        parentPdg = 0

(***************************************************************************)
(* C11 as stated: in the single-mass drivers the parent lookup reads an    *)
(* event record through the direct-mother link only when the link is       *)
(* positive and below the event size; no record outside the event is ever  *)
(* read, and a selected candidate whose mother link is absent,             *)
(* non-positive or out of range is reported with parent 0.                 *)
(***************************************************************************)
\* the loop body of main_hnl_single.cc last ran on a candidate it selected
SelectedFinalCandidate ==
    /\ driver = DriverRootSingle /\ pc \in {"scan", "loop"}
    /\ iScan >= 1 /\ iScan <= size(event)
    /\ abs(at(event, iScan - 1).id) = llp_pdgid
    /\ isFinal(event, iScan - 1)

MotherReadInBounds ==
    /\ ~oobRead
    /\ pc # "abort"
    /\ (SelectedFinalCandidate /\ ~ValidMother(at(event, iScan - 1).mother1))
          => parentPdg = 0

(***************************************************************************)
(* C12: configuring the decay channels a second time with the same mass,   *)
(* lepton and mode on the tables the first run left gives, for every       *)
(* species, the same enabled channels with the same weights in the same    *)
(* order, the same default-mode switch and the same may-decay flag.        *)
(***************************************************************************)
EnabledSeq(e) == SelectSeq(e.chans, LAMBDA c : c.on)

SecondRunSameChannels ==
    pc = "reconfigured" =>
        \A id \in TableIds :
            /\ EnabledSeq(table[id]) = EnabledSeq(tableOnce[id])
            /\ table[id].defaultOn = tableOnce[id].defaultOn
            /\ table[id].mayDecay = tableOnce[id].mayDecay

\* a fromTau run configured twice: the tau holds each channel twice, the
\* first copy switched off
TauConfiguredTwice ==
    /\ driver = DriverPP /\ pc = "reconfigured" /\ productionMode = "fromTau"
    /\ Len(tableOnce[15].chans) = 5
    /\ Len(table[15].chans) = 10
    /\ Len(EnabledSeq(table[15])) = 5

(***************************************************************************)
(* C13: when a single-mass driver has ended by returning from main() after *)
(* the two temporary card files were registered (template-generation       *)
(* failure, engine-initialization failure, output-file failure, normal     *)
(* completion), neither file exists any more and std::remove was called    *)
(* exactly once on each; at no time is it called twice on the same file.   *)
(***************************************************************************)
Count(seq, x) == Cardinality({ k \in 1..Len(seq) : seq[k] = x })

\* the run got past argument parsing, so both removers were constructed
Registered == getLeptonIDs(flavor) # -1 /\ pc \notin {"start", "parsed"}

CardsRemovedExactlyOnce ==
    /\ \A f \in {cardLowMass, cardHighMass} : Count(removed, f) <= 1
    /\ (pc = "exit" /\ Registered) =>
          \A f \in {cardLowMass, cardHighMass} :
              f \notin files /\ Count(removed, f) = 1

\* a run whose engine initialization failed after both cards were generated
CleanedUpAfterInitFailure ==
    /\ pc = "exit" /\ exitCode = 1 /\ initFailed
    /\ driver = DriverRootSingle
    /\ removed = <<cardHighMass, cardLowMass>>
    /\ files = {}

(***************************************************************************)
(* C14 as stated: a candidate whose reported mass is non-positive or       *)
(* non-finite is written with the run's nominal mass as divisor, and once  *)
(* the event loop has started the run never ends with an error exit.       *)
(***************************************************************************)
InvalidMass(x) == leZero(x) \/ ~isfinite(x)

MassAnomalyNeverFatal ==
    /\ \A k \in 1..Len(rows) :
          InvalidMass(rows[k].mass) => rows[k].divisor = Num(mHNL)
    /\ (pc = "exit" /\ outFile = "open") => exitCode = 0

(***************************************************************************)
(* C15 as stated: once an engine initialization has failed the program is  *)
(* ending with a non-zero status: it generates no event and opens no       *)
(* output afterwards.                                                      *)
(***************************************************************************)
InitFailureIsFatal ==
    initFailed => (pc \in {"unwind", "exit"} /\ exitCode # 0 /\ exitCode # -1)

(***************************************************************************)
(* C16 as stated: a run gets past card reading only with the settings of   *)
(* its card; when the card cannot be read the run has exited with a        *)
(* non-zero status, the candidate undefined and no channel configured.     *)
(***************************************************************************)
CardUnreadableFailsFast ==
    /\ pc \in {"carded", "defined", "configured", "initialized"}
          => settings.source = "card"
    /\ (pc = "exit" /\ regime # "" /\ settings.source = "none")
          => (exitCode = 1 /\ ~candidate.defined /\ log = <<>>)

(***************************************************************************)
(* C17: when the mass and lepton close every direct channel of every       *)
(* catalog species, the configuration installs nothing and leaves the      *)
(* tables as they were, the run goes on, no candidate is ever found, and   *)
(* an error exit can only come from the card, the engine initialization    *)
(* or the output file, never from the empty configuration.                 *)
(***************************************************************************)
AllDirectClosed ==
    LET mL == getLeptonMass(flavor)
    IN  /\ productionMode = "direct"
        /\ getLeptonID(flavor) # 0
        /\ \A p \in TwoBodyEmitters : ~(mHNL < MESON_MASSES[p] - mL)
        /\ \A e \in ThreeBodyEmitters(getLeptonID(flavor)) :
              ~(mHNL + mL + e.mD < e.M)

ZeroChannelsRunContinues ==
    AllDirectClosed =>
        /\ log = <<>> /\ table = EngineDefaults
        /\ nHNLfound = 0 /\ rows = <<>>
        /\ (pc = "exit" /\ exitCode # 0) =>
              (initFailed \/ outFile = "failed" \/ ~candidate.defined)
        /\ (pc = "exit" /\ outFile = "closed") => exitCode = 0

\* a 7 GeV muon run that went through all its events and returned 0
ZeroChannelsRunCompleted ==
    /\ AllDirectClosed /\ driver = DriverPP
    /\ pc = "exit" /\ exitCode = 0
    /\ nEvents = MaxEvents /\ nEventsProcessed = MaxEvents
    /\ nHNLfound = 0

(***************************************************************************)
(* C18 as stated: in a tau-flavor run the regime is never kaon and the     *)
(* kaon card is never selected, whatever the mass.                         *)
(***************************************************************************)
TauRunNeverKaon ==
    (getFlavorLabel(flavor) = "tau" /\ qcdMode = "auto") =>
        (regime # "kaon" /\ cardName # "hnl_Kaon.cmnd")

(***************************************************************************)
(* C19 as stated: a direct muon run at 0.3 GeV ends with exactly one       *)
(* enabled channel, K -> mu N of weight 1.0, on each charge state of the   *)
(* charged kaon, and with no candidate channel on any other species.       *)
(***************************************************************************)
KaonExample ==
    /\ Configured /\ productionMode = "direct"
    /\ flavor = "muon" /\ mHNL = 300000

OnlyChannel(id, prods, w) ==
    /\ Cardinality(EnabledChans(id)) = 1
    /\ \A k \in EnabledChans(id) :
          table[id].chans[k].prods = prods /\ table[id].chans[k].w = w

TablesKeptByStep ==
    (pc \in {"configured", "initialized", "loop", "scan", "exit"})
        => (table' = table /\ candidate' = candidate /\ log' = log)

TablesWrittenOnce == [][TablesKeptByStep]_vars

\* the second event of a run with forced channels is being scanned
SecondEventScanned ==
    /\ driver = DriverPP /\ pc = "scan" /\ iEvent = 1
    /\ log # <<>> /\ table # EngineDefaults
    /\ candidate.defined

(***************************************************************************)
(* C21 as stated: on every run whose engine initialization has succeeded   *)
(* the candidate species has may-decay switched off and an effectively     *)
(* infinite lifetime, and no command issued adds a decay channel whose     *)
(* parent is the candidate species.                                        *)
(***************************************************************************)
CandidateNeverDecays ==
    /\ (pc = "initialized" /\ candidate.defined)
          => (~candidate.mayDecay /\ candidate.stable)
    /\ \A k \in 1..Len(log) :
          log[k].op = "addChannel" => abs(log[k].id) \notin {HNL_ID, llp_pdgid}

(***************************************************************************)
(* C22: after the direct configuration, every 2-body emitter whose channel *)
(* is kinematically closed (m >= M - mL) has, on both charge states, the   *)
(* table entry the engine started with: default modes still on, may-decay  *)
(* unchanged, no channel added.                                            *)
(***************************************************************************)
ClosedTwoBodyUntouched ==
    (Configured /\ productionMode = "direct") =>
        \A p \in TwoBodyEmitters :
            mHNL >= MESON_MASSES[p] - getLeptonMass(flavor) =>
                /\ table[p] = EngineDefaults[p]
                /\ table[-p] = EngineDefaults[-p]

\* a muon run exactly at the kaon threshold: the kaon is left alone while
\* the D+ is configured
ClosedKaonAtThreshold ==
    /\ Configured /\ productionMode = "direct" /\ flavor = "muon"
    /\ mHNL = MESON_MASSES[321] - M_MUON
    /\ table[321] = EngineDefaults[321] /\ table[-321] = EngineDefaults[-321]
    /\ Installed(411, <<-13, HNL_ID>>)

(***************************************************************************)
(* C23: after the fromTau configuration a tau -> candidate + recoil        *)
(* channel carries a positive weight only if it is kinematically open      *)
(* (m + m_recoil < m_tau), and the open channels follow the threshold      *)
(* ladder: rho open => 3-pion open => pion open => muon open => electron   *)
(* open.                                                                   *)
(***************************************************************************)
\* the recoil mass of a tau -> candidate channel, from its decay products
recoilMass(prods) ==
    IF Len(prods) = 4 THEN m3Pi
    ELSE IF Contains(prods, 213) \/ Contains(prods, -213) THEN mRho
    ELSE IF Contains(prods, 13) \/ Contains(prods, -13) THEN M_MUON
    ELSE IF Contains(prods, 11) \/ Contains(prods, -11) THEN M_ELECTRON
    ELSE mPi

TauOpen(recoil) == mHNL + recoil < M_TAU

TauConfigured == Configured /\ productionMode = "fromTau"

TauChannelsOnlyWhenOpen ==
    TauConfigured =>
        /\ \A id \in {15, -15} : \A k \in 1..Len(table[id].chans) :
              (table[id].chans[k].on /\ table[id].chans[k].w > 0)
                  => TauOpen(recoilMass(table[id].chans[k].prods))
        /\ (TauOpen(mRho) => TauOpen(m3Pi))
        /\ (TauOpen(m3Pi) => TauOpen(mPi))
        /\ (TauOpen(mPi) => TauOpen(M_MUON))
        /\ (TauOpen(M_MUON) => TauOpen(M_ELECTRON))

\* just above the muon threshold: only the electron channel is installed
OnlyElectronRecoilOpen ==
    /\ TauConfigured /\ driver = DriverPP
    /\ mHNL = M_TAU - M_MUON
    /\ ~TauOpen(M_MUON) /\ TauOpen(M_ELECTRON)
    /\ Len(table[15].chans) = 1
    /\ table[15].chans[1] = [on |-> TRUE, w |-> 100, prods |-> <<11, -12, HNL_ID>>]

(***************************************************************************)
(* C24: across the event loop of the multi-mode drivers the                *)
(* events-processed and candidates-found counters never decrease;          *)
(* events-processed never exceeds the number of generation attempts made,  *)
(* which never exceeds nEvents; events-processed grows only by one and     *)
(* only on a successful generation step, a failed one moving on to the     *)
(* next event with both counters unchanged; and candidates-found equals    *)
(* the number of rows written so far.                                      *)
(***************************************************************************)
\* pythia.next() calls made so far: the loop index, plus the call of the
\* turn in progress when the scan is running or has ended the run
attempts ==
    IF pc = "scan" \/ (pc = "exit" /\ outFile = "open") THEN iEvent + 1 ELSE iEvent

CountersInStep ==
    /\ nEventsProcessed' >= nEventsProcessed
    /\ nHNLfound' >= nHNLfound
    /\ nEventsProcessed' # nEventsProcessed
          => (pc = "loop" /\ pc' = "scan" /\ nEventsProcessed' = nEventsProcessed + 1)
    /\ (pc = "loop" /\ pc' = "loop")
          => (iEvent' = iEvent + 1 /\ nHNLfound' = nHNLfound)

CountersInState ==
    /\ nEventsProcessed <= attempts
    /\ attempts <= nEvents
    /\ nHNLfound = Len(rows)

CountersMonotone == [](CountersInState) /\ [][CountersInStep]_vars

\* a failed generation step and a successful one that gave a row
OneFailedOneWritten ==
    /\ driver = DriverPP /\ pc = "loop"
    /\ iEvent = 2 /\ nEventsProcessed = 1
    /\ nHNLfound = 1 /\ Len(rows) = 1

(***************************************************************************)
(* C25: after the direct configuration, whenever the 3-body channel of     *)
(* D+/- (411) or B+/- (521) is open, the 2-body channel of the same parent *)
(* is open too and installed, and neither charge state of these parents    *)
(* holds an appended channel while its default decay modes are still on.   *)
(***************************************************************************)
ThreeBodyOnlyWithTwoBody ==
    (Configured /\ productionMode = "direct") =>
        LET lep == getLeptonID(flavor)
            mL == getLeptonMass(flavor)
        IN  /\ \A e \in ThreeBodyEmitters(lep) :
                  (e.p \in {411, 521} /\ mHNL + mL + e.mD < e.M) =>
                      /\ mHNL < MESON_MASSES[e.p] - mL
                      /\ Installed(e.p, <<-lep, HNL_ID>>)
                      /\ Installed(e.q, <<lep, HNL_ID>>)
            /\ \A id \in {411, -411, 521, -521} :
                  table[id].chans # <<>> => ~table[id].defaultOn

\* a muon run just below the D+ 3-body threshold: both D+ channels installed
BothModesOfDPlus ==
    /\ Configured /\ productionMode = "direct" /\ flavor = "muon"
    /\ mHNL = MESON_MASSES[411] - mK0 - M_MUON - 1
    /\ Installed(411, <<-311, -13, HNL_ID>>)
    /\ Installed(411, <<-13, HNL_ID>>)
    /\ ~table[411].defaultOn

(***************************************************************************)
(* C26: in any configured run the two tau-coupling pathways exclude each   *)
(* other: no table holds at once a meson or baryon channel to the          *)
(* candidate and a tau channel to the candidate; a direct run leaves both  *)
(* tau entries as the engine had them, and a fromTau run installs no       *)
(* candidate channel on any meson or baryon.                               *)
(***************************************************************************)
\* species id has an enabled channel that produces the candidate
ToCandidate(id) == \E k \in EnabledChans(id) : Contains(table[id].chans[k].prods, HNL_ID)

HadronIds == TableIds \ {15, -15}

PathwaysExclusive ==
    Configured =>
        /\ ~((\E id \in HadronIds : ToCandidate(id)) /\ (ToCandidate(15) \/ ToCandidate(-15)))
        /\ productionMode = "direct" =>
              (table[15] = EngineDefaults[15] /\ table[-15] = EngineDefaults[-15])
        /\ productionMode = "fromTau" => \A id \in HadronIds : ~ToCandidate(id)

\* a fromTau run at 0.3 GeV: the tau goes to the candidate, the Ds to tau nu
FromTauPathwayOnly ==
    /\ Configured /\ driver = DriverPP /\ productionMode = "fromTau"
    /\ mHNL = 300000
    /\ ToCandidate(15) /\ ToCandidate(-15)
    /\ Installed(431, <<-15, 16>>)
    /\ ~ToCandidate(431)

(***************************************************************************)
(* C27: after the fromTau configuration of the pythia_production driver,   *)
(* at every mass with at least one tau -> candidate channel open, the      *)
(* weights of the channels installed on each tau charge state sum to       *)
(* exactly 1.00 (100 hundredths); and the weights of the branch 'rho open  *)
(* but 3-pion closed' (rho 0.50, pion 0.35) are never installed.           *)
(***************************************************************************)
RECURSIVE SumWeights(_)
SumWeights(chans) ==
    IF chans = <<>> THEN 0 ELSE Head(chans).w + SumWeights(Tail(chans))

TauWeightsSumToOne ==
    (TauConfigured /\ driver = DriverPP) =>
        \A id \in {15, -15} :
            /\ TauOpen(M_ELECTRON) => SumWeights(EnabledSeq(table[id])) = 100
            /\ ~TauOpen(M_ELECTRON) => table[id].chans = <<>>
            /\ \A k \in 1..Len(table[id].chans) :
                  ~(recoilMass(table[id].chans[k].prods) = mRho
                    /\ table[id].chans[k].w = 50)

\* rho closed, 3-pion open: pion 0.55, 3-pion 0.25, muon 0.10, electron 0.10
RhoClosedTriPiOpen ==
    /\ TauConfigured /\ driver = DriverPP
    /\ ~TauOpen(mRho) /\ TauOpen(m3Pi)
    /\ Len(table[15].chans) = 4
    /\ Installed(15, <<-211, HNL_ID>>)
    /\ \E k \in EnabledChans(15) : table[15].chans[k].w = 55

(***************************************************************************)
(* C28: in every row the pythia_production driver has written, the         *)
(* tau_parent_id field is non-zero only if the row's parent is a tau       *)
(* (|parent_pdg| = 15); after a candidate with any other parent has been   *)
(* scanned the grandparent local is 0, whatever an earlier candidate of    *)
(* the same or an earlier event resolved.                                  *)
(***************************************************************************)
TauParentOnlyUnderTau ==
    driver = DriverPP =>
        /\ \A k \in 1..Len(rows) :
              rows[k].tau_parent_id # 0 => abs(rows[k].parent_pdg) = 15
        /\ abs(parentPdg) # 15 => tauParentId = 0

\* a candidate below a tau from a Bc, then a candidate of unknown parent
GrandparentThenNone ==
    /\ driver = DriverPP /\ Len(rows) = 2
    /\ abs(rows[1].parent_pdg) = 15 /\ rows[1].tau_parent_id = 541
    /\ rows[2].parent_pdg = 0 /\ rows[2].tau_parent_id = 0

(***************************************************************************)
(* C29 as stated: in hardBc mode every candidate the scan of the           *)
(* pythia_production driver meets increments exactly one of the            *)
(* written-row counter and the Bc-filtered counter, and a row is written   *)
(* if and only if |parent| = 541, or |parent| = 15 and the tau's resolved  *)
(* grandparent is 541; in every other QCD mode no candidate is filtered.   *)
(***************************************************************************)
\* the loop body is about to run on a candidate
AtCandidate ==
    /\ driver = DriverPP /\ pc = "scan" /\ iScan < size(event)
    /\ abs(at(event, iScan).id) = HNL_ID

BcFilterStep ==
    AtCandidate =>
        LET fromBc == \/ abs(parentPdg') = 541
                      \/ abs(parentPdg') = 15 /\ tauParentId' = 541
            wrote == Len(rows') = Len(rows) + 1 /\ nHNLfound' = nHNLfound + 1
            kept == rows' = rows /\ nHNLfound' = nHNLfound
        IN  IF qcdMode = "hardBc"
            THEN \/ fromBc /\ wrote /\ nBcFiltered' = nBcFiltered
                 \/ ~fromBc /\ kept /\ nBcFiltered' = nBcFiltered + 1
            ELSE nBcFiltered' = nBcFiltered /\ nBcFiltered = 0

BcFilterExact == [][BcFilterStep]_vars

(***************************************************************************)
(* C30 as stated: two single-mass runs started together with the same      *)
(* flavour and different mass arguments never use the same temporary card  *)
(* path, and no run finds its card deleted or replaced by the other run    *)
(* when it reads it.                                                       *)
(***************************************************************************)
\* run p has constructed its removers: its two card paths are in use
UsesCards(p) == proc[p].pc \notin {"start", "exit"}

CardPathsNeverShared ==
    /\ \A p, q \in DOMAIN proc :
          (p # q /\ UsesCards(p) /\ UsesCards(q)) =>
              {lowOf(p), highOf(p)} \cap {lowOf(q), highOf(q)} = {}
    /\ \A p \in DOMAIN proc : proc[p].read \in {"none", "own"}

====
